---- MODULE Spec2Model ----
(***************************************************************************)
(* steemvote: the tracking store (steemvote/db.py), the curation engine    *)
(* and the vote dispatcher (steemvote/voter.py).                           *)
(*                                                                         *)
(* Voting power and priority thresholds are kept in the chain's scale,     *)
(* 0..10000 (STEEMIT_100_PERCENT), instead of the floats 0.0..1.0.  A      *)
(* reason string is a sequence of its parts.                               *)
(***************************************************************************)
EXTENDS Integers, Sequences, FiniteSets, TLC

\* ------------------------------------------------------------------ bounds
\* How many times the clock advances in a behaviour.
MaxTicks == 1
\* Seconds between two observations of the clock.
TickLen == 60
\* The clock's value when the process is first started.
StartTime == 1000

\* ------------------------------------------------------- program constants
STEEMIT_100_PERCENT == 10000
STEEMIT_VOTE_REGENERATION_SECONDS == 432000
update_interval == 20

None == "None"

\* ------------------------------------------------------------ the policy
\* Priority.low / normal / high
Priority == {"low", "normal", "high"}

\* config.get_seconds('min_post_age'), config.get_seconds('max_post_age')
min_post_age == 60
max_post_age == 120

\* config.get_decimal('priority_low' / 'priority_normal' / 'priority_high')
priority_voting_powers ==
    [p \in Priority |-> CASE p = "low" -> 9500
                          [] p = "normal" -> 9000
                          [] p = "high" -> 8000]

blacklisted_authors == {"mallory"}
blacklisted_categories == {"spam"}

\* config.authors: the author rules.
authors ==
    { [name |-> "alice", vote_replies |-> FALSE, weight |-> 100, priority |-> "high"],
      [name |-> "carol", vote_replies |-> TRUE, weight |-> 80, priority |-> "normal"] }

\* config.delegates: the delegate rules.
delegates ==
    { [name |-> "dan", weight |-> 50, priority |-> "low"],
      [name |-> "eve", weight |-> 30, priority |-> "high"] }

\* The value of get_author for a name that has no rule (Python's None).
NoAuthor == [name |-> "", vote_replies |-> FALSE, weight |-> 0, priority |-> "normal"]

\* Config.get_author: the rule named name, or None.
get_author(name) ==
    IF \E a \in authors : a.name = name
    THEN CHOOSE a \in authors : a.name = name
    ELSE NoAuthor

\* ------------------------------------------------------- content items
Ids == {"c1", "c2"}

\* The comments the event stream yields, by identifier.
Comment(id) ==
    CASE id = "c1" ->
           [identifier |-> "c1", author |-> "alice", category |-> "news",
            timestamp |-> StartTime - 2 * TickLen, parent_author |-> "",
            allow_curation_rewards |-> TRUE, allow_votes |-> TRUE,
            active_votes |-> {"dan"}]
      [] OTHER ->
           [identifier |-> id, author |-> "bob", category |-> "news",
            timestamp |-> StartTime - TickLen, parent_author |-> "",
            allow_curation_rewards |-> TRUE, allow_votes |-> TRUE,
            active_votes |-> {"dan"}]

\* Comment.is_reply
is_reply(comment) == comment.parent_author # ""

\* Comment.get_have_voted
get_have_voted(comment, voter_names) == voter_names \cap comment.active_votes

\* ------------------------------------------------- Curator: the decisions
\* Curator._get_voted_delegates
_get_voted_delegates(comment) ==
    { d \in delegates :
        d.name \in get_have_voted(comment, { i.name : i \in delegates }) }

is_blacklisted(comment) ==
    \/ comment.author \in blacklisted_authors
    \/ comment.category \in blacklisted_categories

\* An age limit that also holds back a comment of exactly min_post_age.
is_too_young_eq(comment, t) == t - comment.timestamp <= min_post_age

is_too_young(comment, t) == t - comment.timestamp < min_post_age

\* An age limit that already turns away a comment of exactly max_post_age.
is_too_old_eq(comment, t) == t - comment.timestamp >= max_post_age

is_too_old(comment, t) == t - comment.timestamp > max_post_age

\* A comparison that needs more voting power than the threshold.
is_prioritized_strict(priority, power) == power > priority_voting_powers[priority]

is_prioritized(priority, power) == power >= priority_voting_powers[priority]

should_track(comment, t) ==
    IF ~comment.allow_curation_rewards \/ ~comment.allow_votes
    THEN [track |-> FALSE, reason |-> <<"comment does not allow curation">>]
    ELSE IF is_blacklisted(comment)
    THEN [track |-> FALSE, reason |-> <<"comment author/category is blacklisted">>]
    ELSE IF is_too_old(comment, t)
    THEN [track |-> FALSE, reason |-> <<"comment is too old">>]
    ELSE [track |-> TRUE, reason |-> <<"">>]

\* An author check that does not look at vote_replies.
should_track_for_author_replies(comment, t) ==
    LET st == should_track(comment, t)
        author == get_author(comment.author)
    IN
    IF ~st.track THEN st
    ELSE IF author = NoAuthor
    THEN [track |-> FALSE, reason |-> <<"author is unknown">>]
    ELSE [track |-> TRUE, reason |-> <<"">>]

should_track_for_author(comment, t) ==
    LET st == should_track(comment, t)
        author == get_author(comment.author)
    IN
    IF ~st.track THEN st
    ELSE IF author = NoAuthor
    THEN [track |-> FALSE, reason |-> <<"author is unknown">>]
    ELSE IF is_reply(comment) /\ ~author.vote_replies
    THEN [track |-> FALSE, reason |-> <<"comment is a reply">>]
    ELSE [track |-> TRUE, reason |-> <<"">>]

should_track_for_delegate(comment, t) ==
    LET st == should_track(comment, t) IN
    IF ~st.track THEN st
    ELSE IF _get_voted_delegates(comment) = {}
    THEN [track |-> FALSE, reason |-> <<"no delegates have voted for comment">>]
    ELSE [track |-> TRUE, reason |-> <<"">>]

_should_vote_author(comment, power) ==
    LET author == get_author(comment.author) IN
    IF author = NoAuthor
    THEN <<FALSE, "author does not have a high enough priority">>
    ELSE IF ~is_prioritized(author.priority, power)
    THEN <<FALSE, "author does not have a high enough priority">>
    ELSE <<TRUE, "">>

\* A delegate path that needs every voted delegate to be prioritized.
_should_vote_delegates_all(comment, power) ==
    LET ds == _get_voted_delegates(comment) IN
    IF ds = {}
    THEN <<FALSE, "no delegates have voted for comment">>
    ELSE IF ~(\A i \in ds : is_prioritized(i.priority, power))
    THEN <<FALSE, "no delegates with a high enough priority">>
    ELSE <<TRUE, "">>

_should_vote_delegates(comment, power) ==
    LET ds == _get_voted_delegates(comment) IN
    IF ds = {}
    THEN <<FALSE, "no delegates have voted for comment">>
    ELSE IF ~(\E i \in ds : is_prioritized(i.priority, power))
    THEN <<FALSE, "no delegates with a high enough priority">>
    ELSE <<TRUE, "">>

should_vote(comment, t, power) ==
    LET st == should_track(comment, t)
        a == _should_vote_author(comment, power)
        d == _should_vote_delegates(comment, power)
    IN
    IF ~st.track
    THEN [vote |-> FALSE, track |-> st.track, reason |-> st.reason]
    ELSE IF is_too_young(comment, t)
    THEN [vote |-> FALSE, track |-> TRUE, reason |-> <<"comment is too young">>]
    ELSE IF ~a[1] /\ ~d[1]
    THEN [vote |-> FALSE, track |-> TRUE, reason |-> <<a[2], " and ", d[2]>>]
    ELSE [vote |-> TRUE, track |-> TRUE, reason |-> <<"">>]

\* ---------------------------------------- Curator: what the decisions raise
\* Reading an attribute of obj: AttributeError when obj is None.
AttrError(obj) == IF obj = NoAuthor THEN "AttributeError" ELSE None

\* self.priority_voting_powers[priority]: KeyError for a missing key.
KeyError(priority) ==
    IF priority \in DOMAIN priority_voting_powers THEN None ELSE "KeyError"

\* The first exception of two evaluations in a row.
First(e1, e2) == IF e1 # None THEN e1 ELSE e2

\* Curator.should_track reads attributes every Comment has and the
\* engine's own lists: nothing it evaluates can be None.
should_track_error(comment, t) == None

\* Curator.should_track_for_author: author.vote_replies is read only after
\* `if not author` has returned for None.
should_track_for_author_error(comment, t) ==
    LET st == should_track(comment, t)
        author == get_author(comment.author)
    IN
    IF should_track_error(comment, t) # None THEN should_track_error(comment, t)
    ELSE IF ~st.track THEN None
    ELSE IF author = NoAuthor THEN None
    ELSE IF is_reply(comment) THEN AttrError(author)
    ELSE None

\* Curator.should_track_for_delegate: the list of voted delegates may be
\* empty, and is only tested.
should_track_for_delegate_error(comment, t) ==
    should_track_error(comment, t)

\* An author path that reads author.priority before testing author.
_should_vote_author_error_unguarded(comment) ==
    LET author == get_author(comment.author) IN
    First(AttrError(author), KeyError(author.priority))

\* Curator._should_vote_author: `not author or not
\* self.is_prioritized(author.priority)` stops at `not author` for None.
_should_vote_author_error(comment) ==
    LET author == get_author(comment.author) IN
    IF author = NoAuthor THEN None
    ELSE First(AttrError(author), KeyError(author.priority))

\* Curator._should_vote_delegates: any() over the priorities of the voted
\* delegates, after `if not delegates` has returned for an empty list.
_should_vote_delegates_error(comment) ==
    LET ds == _get_voted_delegates(comment) IN
    IF ds = {} THEN None
    ELSE IF \E i \in ds : KeyError(i.priority) # None THEN "KeyError"
    ELSE None

\* Curator.should_vote: both paths are evaluated, the author path first,
\* once should_track has accepted and the comment is not too young.
should_vote_error(comment, t) ==
    IF should_track_error(comment, t) # None THEN should_track_error(comment, t)
    ELSE IF ~should_track(comment, t).track THEN None
    ELSE IF is_too_young(comment, t) THEN None
    ELSE First(_should_vote_author_error(comment),
               _should_vote_delegates_error(comment))

Max(S) == CHOOSE x \in S : \A y \in S : y <= x

\* A get_voting_weight that knows the authors' weights only.
get_voting_weight_authors(comment) ==
    LET author == get_author(comment.author) IN
    IF author # NoAuthor THEN [raises |-> FALSE, weight |-> author.weight]
    ELSE [raises |-> TRUE, weight |-> 0]

\* Voter.get_voting_weight: the weight, or the exception it raises.
get_voting_weight(comment) ==
    LET author == get_author(comment.author)
        ds == _get_voted_delegates(comment)
    IN
    IF author # NoAuthor THEN [raises |-> FALSE, weight |-> author.weight]
    ELSE IF ds # {} THEN [raises |-> FALSE, weight |-> Max({ i.weight : i \in ds })]
    ELSE [raises |-> TRUE, weight |-> 0]


\* ---------------------------------------------------------------- actors
\* Threads that call add_comment (the ingestion side).
Monitors == {"monitor1", "monitor2"}
\* Threads that call vote_for_comments (the dispatch side).
Timers == {"timer1", "timer2"}
\* The thread of the 'Stop tracking' context menu.
Gui == "gui"
Procs == Monitors \cup Timers \cup {Gui}

\* ------------------------------------------------- the store's records
\* No row of DBComment for an identifier.
NoRec == [exists |-> FALSE, reason_type |-> "", reason_value |-> "",
          tracked |-> FALSE, voted |-> FALSE]
\* No entry of DB.tracked_comments for an identifier.
NoTC == [present |-> FALSE, reason_type |-> "", reason_value |-> ""]
NoArg == [identifier |-> "", reason_type |-> "", reason_value |-> ""]

\* TrackedComment(comment, reason_type, reason_value)
TrackedComment(reason_type, reason_value) ==
    [present |-> TRUE, reason_type |-> reason_type, reason_value |-> reason_value]

\* The reasons the comment stream's handler tracks a comment for at time t:
\* add_comment_with_author(comment) when should_track_for_author allows it,
\* add_comment_with_delegate(comment, name) for a delegate that has voted
\* when should_track_for_delegate allows it.
ReasonsFor(id, t) ==
    { [reason_type |-> "author", reason_value |-> Comment(id).author] :
        x \in { y \in {id} : should_track_for_author(Comment(y), t).track } }
    \cup { [reason_type |-> "delegate", reason_value |-> d.name] :
             d \in { e \in _get_voted_delegates(Comment(id)) :
                       should_track_for_delegate(Comment(id), t).track } }

\* Every identifier, whether the dict has an entry for it or not.
Keys_all(tc) == Ids

\* Keys of the dict DB.tracked_comments.
Keys(tc) == { id \in Ids : tc[id].present }

Range(seq) == { seq[k] : k \in 1..Len(seq) }

\* --------------------------------------------------------------- locks
\* threading.RLock: free, or held count times by owner.
FreeLock == [owner |-> None, count |-> 0]

\* An RLock that never makes a caller wait.
Acquirable_always(l, p) == TRUE

\* A lock that is not re-entrant: its owner waits for it as well.
Acquirable_free(l, p) == l.owner = None

\* RLock.acquire returns at once when the lock is free or owned by the caller.
Acquirable(l, p) == l.owner = None \/ l.owner = p

Acquire(l, p) == [owner |-> p, count |-> l.count + 1]

Release(l) ==
    IF l.count <= 1 THEN FreeLock ELSE [owner |-> l.owner, count |-> l.count - 1]

\* A voting lock that never makes a caller wait.
VotingLockFree_always(v) == TRUE

\* threading.Lock (Voter.voting_lock): acquire returns only when nobody holds it.
VotingLockFree(v) == v = None

\* ------------------------------------------------------------ DB queries
\* DBComment.select().where(DBComment.identifier == identifier).exists()
Exists(db, identifier) == db[identifier].exists

\* DBComment.create(identifier=..., tracked=True, voted=False)
Create(db, a) ==
    [db EXCEPT ![a.identifier] =
        [exists |-> TRUE, reason_type |-> a.reason_type,
         reason_value |-> a.reason_value, tracked |-> TRUE, voted |-> FALSE]]

\* update_voted_comments: c.tracked = False; c.voted = True; c.save()
SaveVoted(db, identifier) ==
    [db EXCEPT ![identifier] = [@ EXCEPT !.tracked = FALSE, !.voted = TRUE]]

\* A deletion query without its tracked and voted conditions.
RemoveQuery_any(rec) == rec.exists

\* remove_tracked_comments: the rows its query selects for deletion.
RemoveQuery(rec) == rec.exists /\ rec.tracked /\ ~rec.voted

\* remove_tracked_comments, one identifier: the row.
RemoveRow(db, identifier) ==
    IF RemoveQuery(db[identifier]) THEN [db EXCEPT ![identifier] = NoRec] ELSE db

\* remove_tracked_comments, one identifier: the dict entry.
RemoveEntry(tc, identifier) == [tc EXCEPT ![identifier] = NoTC]

\* A load that selects every row, whatever its state.
LoadQuery_any(rec) == rec.exists

\* DB.load: the rows with tracked and not voted, as TrackedComments.
LoadQuery(rec) == rec.exists /\ rec.tracked /\ ~rec.voted

Load(db) ==
    [id \in Ids |->
        IF LoadQuery(db[id])
        THEN TrackedComment(db[id].reason_type, db[id].reason_value)
        ELSE NoTC]

\* -------------------------------------------------------- the executor
\* What steem.rpc.broadcast_transaction answers: "ok" or an RPCError message.
Responses == {"ok", "Cannot vote again", "Changing your vote requires", "timeout"}

already_voted_messages == {"Changing your vote requires", "Cannot vote again"}

\* A _vote that takes every RPC error for an already-voted message.
IsAlreadyVoted_any(msg) == TRUE

\* _vote: the error is one of the already-voted messages.
IsAlreadyVoted(msg) == msg \in already_voted_messages

\* --------------------------------------------------------- voting power
\* The raw voting_power values get_account answers with.
RawLevels == {8500}
\* Seconds since last_vote_time in get_account's answer.
ElapsedSamples == {0, 43200}

\* A rounding that drops the fraction.
Round_floor(x, y) == {x \div y}

\* round(x / y) for x, y >= 0: the nearest integer.  When x / y is halfway
\* between two integers, the float that stands for it lies a little to one
\* side or the other and round() follows it: either neighbour.
Round(x, y) ==
    IF (2 * x) % (2 * y) = y
    THEN {x \div y, x \div y + 1}
    ELSE {(2 * x + y) \div (2 * y)}

RECURSIVE GCD(_, _)
GCD(a, b) == IF b = 0 THEN a ELSE GCD(b, a % b)

\* STEEMIT_100_PERCENT / STEEMIT_VOTE_REGENERATION_SECONDS in lowest terms
\* (5 / 216), which keeps the products below within 32 bits.
RegenNum == STEEMIT_100_PERCENT
            \div GCD(STEEMIT_100_PERCENT, STEEMIT_VOTE_REGENERATION_SECONDS)
RegenDen == STEEMIT_VOTE_REGENERATION_SECONDS
            \div GCD(STEEMIT_100_PERCENT, STEEMIT_VOTE_REGENERATION_SECONDS)

\* An update without the min(..., STEEMIT_100_PERCENT).
CurrentPower_nocap(voting_power, elapsed_seconds) ==
    Round(voting_power * RegenDen + RegenNum * elapsed_seconds, RegenDen)

\* Voter.update: min(voting_power + regenerated_power, STEEMIT_100_PERCENT),
\* rounded to four decimals of the fraction, from voting_power and the
\* elapsed seconds: the values round() can give.
CurrentPower(voting_power, elapsed_seconds) ==
    LET scaled == voting_power * RegenDen + RegenNum * elapsed_seconds
        full == STEEMIT_100_PERCENT * RegenDen
        current_power == IF scaled < full THEN scaled ELSE full
    IN Round(current_power, RegenDen)

\* ------------------------------------------------- the database version
\* DB.db_version, a string: its characters.
db_version == <<"0", ".", "1", ".", "0">>

\* The literal '0.1.0' that check_version compares with first.
first_version == <<"0", ".", "1", ".", "0">>

\* No row 'db_version' in DBConfig.
NoVersion == <<>>

\* The versions a database file may be stamped with.
StoredVersions ==
    { <<"0", ".", "0", ".", "9">>, <<"0", ".", "1", ".", "0">>,
      <<"0", ".", "1", ".", "1">>, <<"0", ".", "2", ".", "0">>,
      <<"0", ".", "1", "0", ".", "0">>, <<"1", ".", "0", ".", "0">> }

\* ord() of the characters of a version string.
Ord(c) ==
    CASE c = "." -> 46 [] c = "0" -> 48 [] c = "1" -> 49 [] c = "2" -> 50
      [] c = "9" -> 57

\* Python's < on two strings, from position i on.
RECURSIVE StrLessFrom(_, _, _)
StrLessFrom(a, b, i) ==
    IF i > Len(a) THEN i <= Len(b)
    ELSE IF i > Len(b) THEN FALSE
    ELSE IF Ord(a[i]) # Ord(b[i]) THEN Ord(a[i]) < Ord(b[i])
    ELSE StrLessFrom(a, b, i + 1)

\* Python's < on two strings.
StrLess(a, b) == StrLessFrom(a, b, 1)

\* DB.get_version: the stored version, or the current one when none is
\* stored (set_version stores it).
get_version(stored) == IF stored = NoVersion THEN db_version ELSE stored

\* A check_version that has no test for future versions.
check_version_past(version) ==
    IF StrLess(version, first_version) THEN "DBVersionError" ELSE None

\* DB.check_version, after get_version: the exception it raises, or None.
check_version(version) ==
    IF StrLess(version, first_version) THEN "DBVersionError"
    ELSE IF StrLess(db_version, version) THEN "DBVersionError"
    ELSE None

\* ------------------------------------------------------------ the state
VARIABLES
    DBComment,              \* the table DBComment, by identifier (durable)
    tracked_comments,       \* DB.tracked_comments (in memory)
    lock,                   \* DB.lock
    voting_lock,            \* Voter.voting_lock: its holder, or None
    phase,                  \* "constructed", "running" or "down"
    history,                \* whether acted and skipped are being recorded
    now,                    \* time.time()
    current_voting_power,   \* Curator.current_voting_power
    last_update,            \* Voter.last_update
    chain_votes,            \* identifiers the account has voted on, on chain
    pc,                     \* where each thread is
    arg,                    \* add_comment / remove_tracked_comments: arguments
    ret,                    \* what the call returned or raised
    comments,               \* vote_for_comments: the snapshot still to visit
    cur,                    \* vote_for_comments: the comment being voted
    response,               \* _vote: the executor's answer
    voted_comments,         \* vote_for_comments: voted_comments
    old_identifiers,        \* vote_for_comments: old_identifiers
    idx,                    \* the loop index of the store operation under way
    log,                    \* _vote: the lines logged during the cycle
    acted,                  \* history: identifiers _vote completed for since start
    skipped,                \* history: identifiers whose Tracked row was deleted
    config,                 \* the policy values the Config gives load_settings
    account,                \* the last answer of steem.rpc.get_account
    item,                   \* the comment given to a decision on its own
    result,                 \* what that decision, or the constructor, gave
    DBConfig,               \* the table DBConfig: the value of 'db_version' (durable)
    deferred                \* history: identifiers a cycle rejected and kept

storeVars == <<DBComment, tracked_comments, lock>>
envVars == <<now, current_voting_power, last_update, chain_votes>>
callVars == <<arg, ret>>
pureVars == <<config, account, item, result>>
cycleVars == <<comments, cur, response, voted_comments, old_identifiers, log>>
vars == <<DBComment, tracked_comments, lock, voting_lock, phase, history, now,
          current_voting_power, last_update, chain_votes, pc, arg, ret,
          comments, cur, response, voted_comments, old_identifiers, idx, log,
          acted, skipped, config, account, item, result, DBConfig, deferred>>

\* History: sk and the identifier, when remove_tracked_comments deletes its row.
Skipped(sk, db, identifier) ==
    IF history /\ RemoveQuery(db[identifier]) THEN sk \cup {identifier} ELSE sk

MaxTime == StartTime + MaxTicks * TickLen

\* The threads' local state when nothing is running.
IdleLocals ==
    /\ pc = [p \in Procs |-> "idle"]
    /\ arg = [p \in Procs |-> NoArg]
    /\ ret = [p \in Procs |-> None]
    /\ comments = [p \in Procs |-> {}]
    /\ cur = [p \in Procs |-> None]
    /\ response = [p \in Procs |-> None]
    /\ voted_comments = [p \in Procs |-> <<>>]
    /\ old_identifiers = [p \in Procs |-> <<>>]
    /\ idx = [p \in Procs |-> 0]
    /\ log = [p \in Procs |-> {}]

\* The options of the policy in force: what the Config holds when the
\* engine has been built with the values above.
Options ==
    [blacklist_authors |-> "list", blacklist_categories |-> "list",
     min_post_age |-> min_post_age, max_post_age |-> max_post_age,
     priority_low |-> priority_voting_powers["low"],
     priority_normal |-> priority_voting_powers["normal"],
     priority_high |-> priority_voting_powers["high"]]

\* No answer of get_account has been read yet.
NoAccount == [voting_power |-> 0, last_vote_time |-> 0]

\* No comment is being decided on its own.
NoItem ==
    [identifier |-> "", author |-> "", category |-> "", timestamp |-> 0,
     parent_author |-> "", allow_curation_rewards |-> FALSE,
     allow_votes |-> FALSE, active_votes |-> {}]

\* No decision has been taken and the constructor has raised nothing.
NoResult ==
    [error |-> None, calls |-> 0, track |-> FALSE, reason |-> <<>>, power |-> 0,
     fn |-> "", vote |-> FALSE, by_author |-> FALSE, by_delegates |-> FALSE,
     weight |-> 0]

\* Voter.__init__ and DB.__init__ on a new database file.
Constructed ==
    /\ DBComment = [id \in Ids |-> NoRec]
    /\ tracked_comments = [id \in Ids |-> NoTC]
    /\ lock = FreeLock
    /\ voting_lock = None
    /\ phase = "constructed"
    /\ now = StartTime
    /\ current_voting_power = 0
    /\ last_update = 0
    /\ chain_votes = {}
    /\ acted = {}
    /\ skipped = {}
    /\ config = Options
    /\ account = NoAccount
    /\ item = NoItem
    /\ result = NoResult
    /\ DBConfig = db_version
    /\ deferred = {}
    /\ IdleLocals

Init == Constructed /\ history = FALSE

\* The same start, with the history variables recorded.
InitHistory == Constructed /\ history = TRUE


\* ------------------------------------------------------- construction
\* The values a configuration file may give for the policy.
PowerChoices == {8000, 9000, 9500}
AgeChoices == {60, 120}
ClassChoices == {"list", "NoneType"}

Configs ==
    [blacklist_authors : ClassChoices, blacklist_categories : {"list"},
     min_post_age : AgeChoices, max_post_age : AgeChoices,
     priority_low : PowerChoices, priority_normal : PowerChoices,
     priority_high : PowerChoices]

\* Config.require_class for blacklist_authors and blacklist_categories: the
\* ConfigError it raises, or None.
require_class(cfg) ==
    IF cfg.blacklist_authors # "list"
    THEN "Configuration value for blacklist_authors must be a list"
    ELSE IF cfg.blacklist_categories # "list"
    THEN "Configuration value for blacklist_categories must be a list"
    ELSE None

\* A load_settings that checks the ages only.
load_settings_ages(cfg) ==
    IF cfg.min_post_age > cfg.max_post_age
    THEN "Minimum post age cannot be more than maximum post age"
    ELSE None

\* Curator.load_settings: the ConfigError it raises, or None.
load_settings(cfg) ==
    IF cfg.min_post_age > cfg.max_post_age
    THEN "Minimum post age cannot be more than maximum post age"
    ELSE IF ~(cfg.priority_low >= cfg.priority_normal
              /\ cfg.priority_normal >= cfg.priority_high)
    THEN "Priority voting powers must be: low >= normal >= high"
    ELSE None

\* The constructor has been called with some configuration: nothing is
\* built yet.
InitConfig ==
    /\ DBComment = [id \in Ids |-> NoRec]
    /\ tracked_comments = [id \in Ids |-> NoTC]
    /\ lock = FreeLock
    /\ voting_lock = None
    /\ phase = "new"
    /\ history = FALSE
    /\ now = StartTime
    /\ current_voting_power = 0
    /\ last_update = 0
    /\ chain_votes = {}
    /\ acted = {}
    /\ skipped = {}
    /\ config \in Configs
    /\ account = NoAccount
    /\ item = NoItem
    /\ result = NoResult
    /\ DBConfig = NoVersion
    /\ deferred = {}
    /\ IdleLocals

\* Curator.__init__: the two require_class calls, then load_settings.  A
\* ConfigError leaves the constructor and no Voter exists.
CuratorInit ==
    /\ phase = "new"
    /\ LET e == IF require_class(config) # None THEN require_class(config)
                ELSE load_settings(config)
       IN /\ result' = [result EXCEPT !.error = e]
          /\ phase' = IF e # None THEN "config_error" ELSE "settings_loaded"
    /\ UNCHANGED <<storeVars, voting_lock, history, envVars, pc, callVars, cycleVars,
                   idx, acted, skipped, config, account, item, DBConfig, deferred>>

\* Voter.__init__ after Curator.__init__ has returned: the lock and
\* self.db = DB(config), which opens the database.
\* DB.__init__ creates the tables that are missing, reads the version
\* (storing the current one when there is none) and checks it; a
\* DBVersionError leaves the constructor.
VoterInit ==
    /\ phase = "settings_loaded"
    /\ DBConfig' = get_version(DBConfig)
    /\ LET e == check_version(get_version(DBConfig)) IN
          /\ result' = [result EXCEPT !.error = e]
          /\ phase' = IF e # None THEN "db_error" ELSE "constructed"
    /\ UNCHANGED <<storeVars, voting_lock, history, envVars, pc, callVars, cycleVars,
                   idx, acted, skipped, config, account, item, deferred>>

\* -------------------------------------------- opening a database file
\* The rows a database file may hold for one identifier.
StoredRows ==
    { NoRec,
      [exists |-> TRUE, reason_type |-> "author", reason_value |-> "alice",
       tracked |-> TRUE, voted |-> FALSE],
      [exists |-> TRUE, reason_type |-> "author", reason_value |-> "alice",
       tracked |-> FALSE, voted |-> TRUE] }

\* Curator.__init__ has returned and Voter.__init__ is about to open a
\* database file left by an earlier run of some version of the program.
InitOpen ==
    /\ DBComment \in [Ids -> StoredRows]
    /\ tracked_comments = [id \in Ids |-> NoTC]
    /\ lock = FreeLock
    /\ voting_lock = None
    /\ phase = "settings_loaded"
    /\ history = FALSE
    /\ now = StartTime
    /\ current_voting_power = 0
    /\ last_update = 0
    /\ chain_votes = {}
    /\ acted = {}
    /\ skipped = {}
    /\ config = Options
    /\ account = NoAccount
    /\ item = NoItem
    /\ result = NoResult
    /\ DBConfig \in StoredVersions \cup {NoVersion}
    /\ deferred = {}
    /\ IdleLocals

\* ------------------------------------------------- update() on its own
\* How far the clock is followed past the first start.
MaxElapse == 150
\* Seconds between two looks at the clock.
ElapseSteps == {20, 108}
\* The voting_power values get_account may answer with.
PowerSamples == {0, 8500, 9998, STEEMIT_100_PERCENT}
\* Seconds between last_vote_time in a new answer and the clock.
ElapsedChoices == {0, 7, 108, 43200, STEEMIT_VOTE_REGENERATION_SECONDS}

\* The answers get_account may give now: the account has voted since the
\* last answer, or it has not and the answer is the same.
Answers ==
    { [voting_power |-> vp, last_vote_time |-> now - e] :
        vp \in PowerSamples, e \in ElapsedChoices }
    \cup (IF account # NoAccount THEN {account} ELSE {})

\* Voter.update past its interval check, with the answer d.
update(d) ==
    /\ current_voting_power' \in
          CurrentPower(d.voting_power, now - d.last_vote_time)
    /\ last_update' = now
    /\ account' = d

\* SteemvoteWindow.main: connect_to_steem and the first update(), the
\* answer kept.
Connect ==
    /\ phase = "constructed"
    /\ tracked_comments' = Load(DBComment)
    /\ \E d \in Answers : update(d)
    /\ phase' = "running"
    /\ UNCHANGED <<history, DBComment, lock, voting_lock, now, chain_votes, pc, arg, ret,
                   comments, cur, response, voted_comments, old_identifiers,
                   idx, log, acted, skipped, config, item, DBConfig, deferred, result>>

\* Voter.update, the answer kept: nothing is done within update_interval of
\* the last update.
Refresh ==
    /\ phase = "running"
    /\ ~(now - last_update < update_interval)
    /\ \E d \in Answers : update(d)
    /\ result' = NoResult
    /\ UNCHANGED <<storeVars, voting_lock, phase, history, now, chain_votes, pc,
                   callVars, cycleVars, idx, acted, skipped, config, item, DBConfig, deferred>>

\* Curator.is_prioritized, as should_vote calls it for a rule's priority:
\* the comparison made at the present time, its outcome kept until the
\* clock or the statistics move.
Prioritize ==
    /\ phase = "running"
    /\ \E priority \in Priority :
          result' = [NoResult EXCEPT
                       !.calls = 1,
                       !.track = is_prioritized(priority, current_voting_power),
                       !.reason = <<priority>>]
    /\ UNCHANGED <<storeVars, voting_lock, phase, history, now, current_voting_power,
                   last_update, chain_votes, pc, callVars, cycleVars, idx, acted,
                   skipped, config, account, item, DBConfig, deferred>>

\* Time passes.
Elapse ==
    /\ now < StartTime + MaxElapse
    /\ \E d \in ElapseSteps : now' = now + d
    /\ result' = NoResult
    /\ UNCHANGED <<storeVars, voting_lock, phase, history, current_voting_power,
                   last_update, chain_votes, pc, callVars, cycleVars, idx, acted,
                   skipped, config, account, item, DBConfig, deferred>>

\* ------------------------------------------- should_track on its own
\* The ages, at StartTime, of the comments decided on their own.
ItemAges == {max_post_age - 1, max_post_age, max_post_age + 1}

\* The comments should_track is given.
Items ==
    { [identifier |-> "c1", author |-> a, category |-> c,
       timestamp |-> StartTime - age, parent_author |-> "",
       allow_curation_rewards |-> acr, allow_votes |-> av,
       active_votes |-> {}] :
        a \in {"alice", "bob", "mallory"}, c \in {"news", "spam"},
        age \in ItemAges, acr \in BOOLEAN, av \in BOOLEAN }

\* A running engine, its statistics one update_interval old, about to
\* decide on one comment.
InitTrack ==
    /\ DBComment = [id \in Ids |-> NoRec]
    /\ tracked_comments = [id \in Ids |-> NoTC]
    /\ lock = FreeLock
    /\ voting_lock = None
    /\ phase = "running"
    /\ history = FALSE
    /\ now = StartTime
    /\ current_voting_power \in PowerChoices
    /\ last_update = StartTime - update_interval
    /\ chain_votes = {}
    /\ acted = {}
    /\ skipped = {}
    /\ config = Options
    /\ account = NoAccount
    /\ item \in Items
    /\ result = NoResult
    /\ DBConfig = db_version
    /\ deferred = {}
    /\ IdleLocals

\* A should_track that turns a comment away when the voting power is below
\* the threshold of the normal priority.
TrackDecision_budget ==
    IF ~is_prioritized("normal", current_voting_power)
    THEN [track |-> FALSE, reason |-> <<"voting power is too low">>]
    ELSE should_track(item, now)

\* self.should_track(comment), as the engine calls it now.
TrackDecision == should_track(item, now)

\* Curator.should_track is called for the comment; the decision is kept
\* with the voting power it was taken under. A second decision is taken
\* only under another voting power.
Track ==
    /\ phase = "running"
    /\ \/ result.calls = 0
       \/ result.calls = 1 /\ result.power # current_voting_power
    /\ result' = [result EXCEPT !.calls = @ + 1,
                                !.fn = "should_track",
                                !.error = should_track_error(item, now),
                                !.track = TrackDecision.track,
                                !.reason = TrackDecision.reason,
                                !.power = current_voting_power]
    /\ UNCHANGED <<storeVars, voting_lock, phase, history, envVars, pc, callVars,
                   cycleVars, idx, acted, skipped, config, account, item, DBConfig, deferred>>

\* Voter.update past its interval check: another voting power is read.
UpdatePower ==
    /\ phase = "running"
    /\ ~(now - last_update < update_interval)
    /\ current_voting_power' \in PowerChoices \ {current_voting_power}
    /\ last_update' = now
    /\ UNCHANGED <<storeVars, voting_lock, phase, history, pureVars, DBConfig, deferred, now, chain_votes,
                   pc, callVars, cycleVars, idx, acted, skipped>>

\* SteemvoteWindow, settingsChanged: load_settings reads other thresholds.
SettingsChanged ==
    /\ phase = "running"
    /\ config' \in { c \in Configs :
                       /\ load_settings(c) = None
                       /\ c.blacklist_authors = config.blacklist_authors
                       /\ c.blacklist_categories = config.blacklist_categories
                       /\ c.min_post_age = config.min_post_age
                       /\ c.max_post_age = config.max_post_age
                       /\ c # config }
    /\ UNCHANGED <<storeVars, voting_lock, phase, history, envVars, pc, callVars,
                   cycleVars, idx, acted, skipped, account, item, DBConfig, deferred, result>>

\* Curator.load_settings: the fields of the engine once it has returned or
\* raised.  Each field is assigned as it is read, before the test that
\* follows it; the blacklists are assigned last.
load_settings_self(self, cfg) ==
    IF cfg.min_post_age > cfg.max_post_age
    THEN [self EXCEPT !.min_post_age = cfg.min_post_age,
                      !.max_post_age = cfg.max_post_age]
    ELSE IF ~(cfg.priority_low >= cfg.priority_normal
              /\ cfg.priority_normal >= cfg.priority_high)
    THEN [self EXCEPT !.min_post_age = cfg.min_post_age,
                      !.max_post_age = cfg.max_post_age,
                      !.priority_low = cfg.priority_low,
                      !.priority_normal = cfg.priority_normal,
                      !.priority_high = cfg.priority_high]
    ELSE cfg

\* SteemvoteWindow, settingsChanged after the settings widget has written
\* any values to the Config: self.voter.load_settings() runs on them, and
\* config holds the engine's fields afterwards.
Reload ==
    /\ phase = "running"
    /\ \E c \in Configs :
          /\ c.blacklist_authors = "list"
          /\ config' = load_settings_self(config, c)
          /\ result' = [NoResult EXCEPT !.calls = 1, !.fn = "load_settings",
                                        !.error = load_settings(c)]
    /\ UNCHANGED <<storeVars, voting_lock, phase, history, envVars, pc, callVars,
                   cycleVars, idx, acted, skipped, account, item, DBConfig, deferred>>

\* --------------------------------------------- the decisions on their own
\* The ages, at StartTime, of the comments the decisions are taken on.
VoteAges == {min_post_age - 1, min_post_age, max_post_age, max_post_age + 1}

\* The accounts that may have voted on a comment; zed is no delegate.
Voters == {"dan", "eve", "zed"}

\* The comments the decisions are taken on.
VoteItems ==
    { [identifier |-> "c1", author |-> a, category |-> c,
       timestamp |-> StartTime - age, parent_author |-> pa,
       allow_curation_rewards |-> allow, allow_votes |-> allow,
       active_votes |-> av] :
        a \in {"alice", "bob", "carol", "mallory"}, c \in {"news", "spam"},
        age \in VoteAges, pa \in {"", "alice"}, allow \in BOOLEAN,
        av \in SUBSET Voters }

\* The voting powers update() may have left, on and around the thresholds.
DecidePowers == {7500, 8000, 8500, 9000, 9500}

\* A running engine, just updated, about to decide on one comment.
InitDecide ==
    /\ DBComment = [id \in Ids |-> NoRec]
    /\ tracked_comments = [id \in Ids |-> NoTC]
    /\ lock = FreeLock
    /\ voting_lock = None
    /\ phase = "running"
    /\ history = FALSE
    /\ now = StartTime
    /\ current_voting_power \in DecidePowers
    /\ last_update = StartTime
    /\ chain_votes = {}
    /\ acted = {}
    /\ skipped = {}
    /\ config = Options
    /\ account = NoAccount
    /\ item \in VoteItems
    /\ result = NoResult
    /\ DBConfig = db_version
    /\ deferred = {}
    /\ IdleLocals

\* What a decision leaves alone.
DecideFrame ==
    UNCHANGED <<storeVars, voting_lock, phase, history, envVars, pc, callVars,
                cycleVars, idx, acted, skipped, config, account, item, DBConfig, deferred>>

\* Curator.should_track_for_author is called for the comment.
TrackForAuthor ==
    /\ phase = "running"
    /\ LET r == should_track_for_author(item, now) IN
       result' = [NoResult EXCEPT !.calls = 1, !.fn = "should_track_for_author",
                                  !.error = should_track_for_author_error(item, now),
                                  !.track = r.track, !.reason = r.reason,
                                  !.power = current_voting_power]
    /\ DecideFrame

\* Curator.should_track_for_delegate is called for the comment.
TrackForDelegate ==
    /\ phase = "running"
    /\ LET r == should_track_for_delegate(item, now) IN
       result' = [NoResult EXCEPT !.calls = 1, !.fn = "should_track_for_delegate",
                                  !.error = should_track_for_delegate_error(item, now),
                                  !.track = r.track, !.reason = r.reason,
                                  !.power = current_voting_power]
    /\ DecideFrame

\* Curator.should_vote is called for the comment; the two paths are kept
\* when should_vote comes to compute them.
ShouldVote ==
    /\ phase = "running"
    /\ LET r == should_vote(item, now, current_voting_power)
           paths == should_track(item, now).track /\ ~is_too_young(item, now)
       IN
       result' = [NoResult EXCEPT
                    !.calls = 1, !.fn = "should_vote",
                    !.error = should_vote_error(item, now),
                    !.vote = r.vote, !.track = r.track, !.reason = r.reason,
                    !.by_author =
                        paths /\ _should_vote_author(item, current_voting_power)[1],
                    !.by_delegates =
                        paths /\ _should_vote_delegates(item, current_voting_power)[1],
                    !.power = current_voting_power]
    /\ DecideFrame

\* vote_for_comments, the branch of an approved comment up to the weight:
\* Voter.get_voting_weight is called for it.
VotingWeight ==
    /\ phase = "running"
    /\ should_vote(item, now, current_voting_power).vote
    /\ LET w == get_voting_weight(item) IN
       result' = [NoResult EXCEPT
                    !.calls = 1, !.fn = "get_voting_weight",
                    !.vote = TRUE, !.track = TRUE,
                    !.error = IF w.raises THEN "Exception" ELSE None,
                    !.weight = w.weight,
                    !.power = current_voting_power]
    /\ DecideFrame

\* ------------------------------------------------------- start and stop
\* SteemvoteWindow.main: connect_to_steem (DB.load) and the first update().
Start ==
    /\ phase \in {"constructed", "down"}
    /\ tracked_comments' = Load(DBComment)
    /\ \E vp \in RawLevels, e \in ElapsedSamples :
          current_voting_power' \in CurrentPower(vp, e)
    /\ last_update' = now
    /\ phase' = "running"
    /\ UNCHANGED <<history, pureVars, DBConfig, deferred, DBComment, lock, voting_lock, now, chain_votes, pc, arg, ret,
                   comments, cur, response, voted_comments, old_identifiers,
                   idx, log, acted, skipped>>

\* The process stops at any point: everything in memory is lost, the
\* database file keeps every row saved so far.
Crash ==
    /\ phase = "running"
    /\ phase' = "down"
    /\ tracked_comments' = [id \in Ids |-> NoTC]
    /\ lock' = FreeLock
    /\ voting_lock' = None
    /\ current_voting_power' = 0
    /\ last_update' = 0
    /\ acted' = {}
    /\ skipped' = skipped
    /\ pc' = [p \in Procs |-> "idle"]
    /\ arg' = [p \in Procs |-> NoArg]
    /\ ret' = [p \in Procs |-> None]
    /\ comments' = [p \in Procs |-> {}]
    /\ cur' = [p \in Procs |-> None]
    /\ response' = [p \in Procs |-> None]
    /\ voted_comments' = [p \in Procs |-> <<>>]
    /\ old_identifiers' = [p \in Procs |-> <<>>]
    /\ idx' = [p \in Procs |-> 0]
    /\ log' = [p \in Procs |-> {}]
    /\ UNCHANGED <<history, pureVars, DBConfig, deferred, DBComment, now, chain_votes>>

\* signal.signal(SIGINT, lambda *args: self.app.quit()): the event loop is
\* told to end.  The handler that is running goes on to its end; no other
\* timer or menu handler is started after it.
Quit ==
    /\ phase = "running"
    /\ phase' = "stopping"
    /\ UNCHANGED <<DBComment, tracked_comments, lock, voting_lock, history, pureVars, DBConfig, deferred, now,
                   current_voting_power, last_update, chain_votes, pc, arg,
                   ret, comments, cur, response, voted_comments,
                   old_identifiers, idx, log, acted, skipped>>

\* A shutdown that does not wait for the handler that is running.
MainThreadIdle_always == TRUE

\* timer_actions and the menu's handlers are slots of objects of the main
\* thread, which runs them one at a time inside app.exec_(): exec_ returns
\* to main only when none of them is running.
MainThreadIdle == \A p \in Timers \cup {Gui} : pc[p] = "idle"

\* SteemvoteWindow.main after app.exec_() has returned: timer.stop(),
\* monitor.stop(), voter.close() (self.db.close()), and the process ends.
\* What was in memory is gone, the database file keeps its rows.
Close ==
    /\ phase = "stopping"
    /\ MainThreadIdle
    /\ phase' = "closed"
    /\ tracked_comments' = [id \in Ids |-> NoTC]
    /\ lock' = FreeLock
    /\ voting_lock' = None
    /\ current_voting_power' = 0
    /\ last_update' = 0
    /\ acted' = {}
    /\ skipped' = skipped
    /\ pc' = [p \in Procs |-> "idle"]
    /\ arg' = [p \in Procs |-> NoArg]
    /\ ret' = [p \in Procs |-> None]
    /\ comments' = [p \in Procs |-> {}]
    /\ cur' = [p \in Procs |-> None]
    /\ response' = [p \in Procs |-> None]
    /\ voted_comments' = [p \in Procs |-> <<>>]
    /\ old_identifiers' = [p \in Procs |-> <<>>]
    /\ idx' = [p \in Procs |-> 0]
    /\ log' = [p \in Procs |-> {}]
    /\ UNCHANGED <<history, pureVars, DBConfig, deferred, DBComment, now, chain_votes>>

\* Time passes.
Tick ==
    /\ now < MaxTime
    /\ now' = now + TickLen
    /\ UNCHANGED <<DBComment, tracked_comments, lock, voting_lock, phase, history, pureVars, DBConfig, deferred,
                   current_voting_power, last_update, chain_votes, pc, arg,
                   ret, comments, cur, response, voted_comments,
                   old_identifiers, idx, log, acted, skipped>>

\* Voter.update, past the interval check.
Update ==
    /\ phase = "running"
    /\ ~(now - last_update < update_interval)
    /\ \E vp \in RawLevels, e \in ElapsedSamples :
          current_voting_power' \in CurrentPower(vp, e)
    /\ last_update' = now
    /\ UNCHANGED <<DBComment, tracked_comments, lock, voting_lock, phase, history, pureVars, DBConfig, deferred, now,
                   chain_votes, pc, arg, ret, comments, cur, response,
                   voted_comments, old_identifiers, idx, log, acted, skipped>>

\* ----------------------------------------------------- Monitor.monitor
\* A loop that takes a ValueError for any other exception and ends.
Malformed_stop(p) ==
    /\ phase = "running"
    /\ pc[p] = "idle"
    /\ ret' = [ret EXCEPT ![p] = "ValueError"]
    /\ pc' = [pc EXCEPT ![p] = "m_stopped"]
    /\ UNCHANGED <<storeVars, voting_lock, phase, history, pureVars, DBConfig, deferred,
                   envVars, arg, cycleVars, idx, acted, skipped>>

\* The loop body for an item Comment() raises ValueError for: the
\* exception is caught and logged, and the loop goes round.
Malformed(p) ==
    /\ phase = "running"
    /\ pc[p] = "idle"
    /\ ret' = [ret EXCEPT ![p] = "ValueError"]
    /\ UNCHANGED <<storeVars, voting_lock, phase, history, pureVars, DBConfig, deferred,
                   envVars, pc, arg, cycleVars, idx, acted, skipped>>

\* The loop body when next(iterator) raises any other exception: it is
\* logged and the loop ends.
MonitorBreak(p) ==
    /\ phase = "running"
    /\ pc[p] = "idle"
    /\ ret' = [ret EXCEPT ![p] = "Exception"]
    /\ pc' = [pc EXCEPT ![p] = "m_stopped"]
    /\ UNCHANGED <<storeVars, voting_lock, phase, history, pureVars, DBConfig, deferred,
                   envVars, arg, cycleVars, idx, acted, skipped>>

\* ------------------------------------------------------- DB.add_comment
\* add_comment_with_author / add_comment_with_delegate calls add_comment
\* with the identifier and its reason; the caller then waits for self.lock.
AddCall(p) ==
    /\ phase \in {"running", "stopping"}
    /\ pc[p] = "idle"
    /\ \E id \in Ids : \E r \in ReasonsFor(id, now) :
          arg' = [arg EXCEPT ![p] = [identifier |-> id,
                                     reason_type |-> r.reason_type,
                                     reason_value |-> r.reason_value]]
    /\ pc' = [pc EXCEPT ![p] = "add_lock"]
    /\ UNCHANGED <<storeVars, voting_lock, phase, history, pureVars, DBConfig, deferred, envVars,
                   ret, cycleVars, idx, acted, skipped>>

\* with self.lock:
AddLock(p) ==
    /\ pc[p] = "add_lock"
    /\ Acquirable(lock, p)
    /\ lock' = Acquire(lock, p)
    /\ pc' = [pc EXCEPT ![p] = "add_check"]
    /\ UNCHANGED <<DBComment, tracked_comments, voting_lock, phase, history, pureVars, DBConfig, deferred, envVars,
                   callVars, cycleVars, idx, acted, skipped>>

\* if DBComment.select()...exists(): return False
AddCheck(p) ==
    /\ pc[p] = "add_check"
    /\ IF Exists(DBComment, arg[p].identifier)
       THEN /\ ret' = [ret EXCEPT ![p] = "False"]
            /\ pc' = [pc EXCEPT ![p] = "add_unlock"]
       ELSE /\ ret' = ret
            /\ pc' = [pc EXCEPT ![p] = "add_create"]
    /\ UNCHANGED <<storeVars, voting_lock, phase, history, pureVars, DBConfig, deferred, envVars, arg, cycleVars,
                   idx, acted, skipped>>

\* DBComment.create(...): identifier is unique, a second row raises.
AddCreate(p) ==
    /\ pc[p] = "add_create"
    /\ IF Exists(DBComment, arg[p].identifier)
       THEN /\ ret' = [ret EXCEPT ![p] = "IntegrityError"]
            /\ pc' = [pc EXCEPT ![p] = "add_unlock"]
            /\ DBComment' = DBComment
       ELSE /\ DBComment' = Create(DBComment, arg[p])
            /\ pc' = [pc EXCEPT ![p] = "add_mem"]
            /\ ret' = ret
    /\ UNCHANGED <<tracked_comments, lock, voting_lock, phase, history, pureVars, DBConfig, deferred, envVars, arg,
                   cycleVars, idx, acted, skipped>>

\* self.tracked_comments[comment.identifier] = TrackedComment(...); return True
AddMem(p) ==
    /\ pc[p] = "add_mem"
    /\ tracked_comments' =
          [tracked_comments EXCEPT ![arg[p].identifier] =
              TrackedComment(arg[p].reason_type, arg[p].reason_value)]
    /\ ret' = [ret EXCEPT ![p] = "True"]
    /\ pc' = [pc EXCEPT ![p] = "add_unlock"]
    /\ UNCHANGED <<DBComment, lock, voting_lock, phase, history, pureVars, DBConfig, deferred, envVars, arg,
                   cycleVars, idx, acted, skipped>>

\* Leaving the with block: the lock is released and the call is over.
AddUnlock(p) ==
    /\ pc[p] = "add_unlock"
    /\ lock' = Release(lock)
    /\ pc' = [pc EXCEPT ![p] = "idle"]
    /\ arg' = [arg EXCEPT ![p] = NoArg]
    /\ ret' = [ret EXCEPT ![p] = None]
    /\ UNCHANGED <<DBComment, tracked_comments, voting_lock, phase, history, pureVars, DBConfig, deferred, envVars,
                   cycleVars, idx, acted, skipped>>

\* --------------------------- DB.remove_tracked_comments, from the menu
\* CommentsWidget.context_menu, skip: remove_tracked_comments([identifier])
\* and the call enters its with self.lock block.
RmLock(p) ==
    /\ phase = "running"
    /\ pc[p] = "idle"
    /\ Acquirable(lock, p)
    /\ lock' = Acquire(lock, p)
    /\ \E id \in Ids :
          arg' = [arg EXCEPT ![p] = [NoArg EXCEPT !.identifier = id]]
    /\ pc' = [pc EXCEPT ![p] = "rm_loop"]
    /\ UNCHANGED <<DBComment, tracked_comments, voting_lock, phase, history, pureVars, DBConfig, deferred, envVars,
                   ret, cycleVars, idx, acted, skipped>>

\* The loop body for the one identifier, then the lock is released.
RmLoop(p) ==
    /\ pc[p] = "rm_loop"
    /\ DBComment' = RemoveRow(DBComment, arg[p].identifier)
    /\ tracked_comments' = RemoveEntry(tracked_comments, arg[p].identifier)
    /\ skipped' = Skipped(skipped, DBComment, arg[p].identifier)
    /\ lock' = Release(lock)
    /\ pc' = [pc EXCEPT ![p] = "idle"]
    /\ arg' = [arg EXCEPT ![p] = NoArg]
    /\ UNCHANGED <<voting_lock, phase, history, pureVars, DBConfig, deferred, envVars, ret, cycleVars, idx, acted>>


\* --------------------------------------------- Voter.vote_for_comments
\* vote_for_comments is called (self.steem is set once connected).
\* A cycle that stamps the statistics as refreshed when it begins.
VoteCall_refresh(p) ==
    /\ phase = "running"
    /\ pc[p] = "idle"
    /\ pc' = [pc EXCEPT ![p] = "v_lock"]
    /\ last_update' = now
    /\ UNCHANGED <<storeVars, voting_lock, phase, history, pureVars, DBConfig, deferred, now,
                   current_voting_power, chain_votes, callVars, cycleVars, idx,
                   acted, skipped>>

VoteCall(p) ==
    /\ phase = "running"
    /\ pc[p] = "idle"
    /\ pc' = [pc EXCEPT ![p] = "v_lock"]
    /\ UNCHANGED <<storeVars, voting_lock, phase, history, pureVars, DBConfig, deferred, envVars, callVars,
                   cycleVars, idx, acted, skipped>>

\* with self.voting_lock:
VoteLock(p) ==
    /\ pc[p] = "v_lock"
    /\ VotingLockFree(voting_lock)
    /\ voting_lock' = p
    /\ pc' = [pc EXCEPT ![p] = "v_snap"]
    /\ UNCHANGED <<storeVars, phase, history, pureVars, DBConfig, deferred, envVars, callVars, cycleVars, idx, acted, skipped>>

\* A get_tracked_comments that returns with the store lock still held.
VoteSnap_hold(p) ==
    /\ pc[p] = "v_snap"
    /\ Acquirable(lock, p)
    /\ lock' = Acquire(lock, p)
    /\ comments' = [comments EXCEPT ![p] = Keys(tracked_comments)]
    /\ pc' = [pc EXCEPT ![p] = "v_loop"]
    /\ UNCHANGED <<DBComment, tracked_comments, voting_lock, phase, history, pureVars, DBConfig, deferred, envVars,
                   callVars, cur, response, voted_comments, old_identifiers, log,
                   idx, acted, skipped>>

\* comments = self.db.get_tracked_comments(with_metadata=False): the copy
\* is taken with the store lock held.
VoteSnap(p) ==
    /\ pc[p] = "v_snap"
    /\ Acquirable(lock, p)
    /\ comments' = [comments EXCEPT ![p] = Keys(tracked_comments)]
    /\ pc' = [pc EXCEPT ![p] = "v_loop"]
    /\ UNCHANGED <<storeVars, voting_lock, phase, history, pureVars, DBConfig, deferred, envVars, callVars, cur,
                   response, voted_comments, old_identifiers, log, idx, acted, skipped>>

\* for comment in comments: should_vote, and get_voting_weight when it
\* approves.  The dict's order is not fixed: any comment left comes next.
\* A loop that stops tracking every comment it does not vote for.
VoteLoop_drop(p) ==
    /\ pc[p] = "v_loop"
    /\ \E c \in comments[p] :
        LET sv == should_vote(Comment(c), now, current_voting_power)
            w == get_voting_weight(Comment(c))
        IN
        /\ comments' = [comments EXCEPT ![p] = @ \ {c}]
        /\ deferred' = IF history /\ ~sv.vote /\ sv.track
                       THEN deferred \cup {c} ELSE deferred
        /\ IF ~sv.vote
           THEN /\ old_identifiers' =
                      [old_identifiers EXCEPT ![p] =
                          Append(@, c)]
                /\ UNCHANGED <<pc, cur, ret>>
           ELSE IF w.raises
           THEN /\ ret' = [ret EXCEPT ![p] = "Exception"]
                /\ pc' = [pc EXCEPT ![p] = "v_raised"]
                /\ cur' = [cur EXCEPT ![p] = c]
                /\ UNCHANGED old_identifiers
           ELSE /\ cur' = [cur EXCEPT ![p] = c]
                /\ pc' = [pc EXCEPT ![p] = "v_vote"]
                /\ UNCHANGED <<old_identifiers, ret>>
    /\ UNCHANGED <<storeVars, voting_lock, phase, history, pureVars, DBConfig, envVars, arg, response,
                   voted_comments, log, idx, acted, skipped>>

VoteLoop(p) ==
    /\ pc[p] = "v_loop"
    /\ \E c \in comments[p] :
        LET sv == should_vote(Comment(c), now, current_voting_power)
            w == get_voting_weight(Comment(c))
        IN
        /\ comments' = [comments EXCEPT ![p] = @ \ {c}]
        /\ deferred' = IF history /\ ~sv.vote /\ sv.track
                       THEN deferred \cup {c} ELSE deferred
        /\ IF ~sv.vote
           THEN /\ old_identifiers' =
                      [old_identifiers EXCEPT ![p] =
                          IF ~sv.track THEN Append(@, c) ELSE @]
                /\ UNCHANGED <<pc, cur, ret>>
           ELSE IF w.raises
           THEN /\ ret' = [ret EXCEPT ![p] = "Exception"]
                /\ pc' = [pc EXCEPT ![p] = "v_raised"]
                /\ cur' = [cur EXCEPT ![p] = c]
                /\ UNCHANGED old_identifiers
           ELSE /\ cur' = [cur EXCEPT ![p] = c]
                /\ pc' = [pc EXCEPT ![p] = "v_vote"]
                /\ UNCHANGED <<old_identifiers, ret>>
    /\ UNCHANGED <<storeVars, voting_lock, phase, history, pureVars, DBConfig, envVars, arg, response,
                   voted_comments, log, idx, acted, skipped>>

\* The loop is over: self.db.update_voted_comments(voted_comments)
VoteLoopEnd(p) ==
    /\ pc[p] = "v_loop"
    /\ comments[p] = {}
    /\ pc' = [pc EXCEPT ![p] = "u_lock"]
    /\ UNCHANGED <<storeVars, voting_lock, phase, history, pureVars, DBConfig, deferred, envVars, callVars,
                   cycleVars, idx, acted, skipped>>

\* _vote: steem.vote and broadcast_transaction; the chain answers.  A vote
\* by an account that has voted already is refused with one of the
\* already-voted messages; a call that times out may have gone through.
VoteSend(p) ==
    /\ pc[p] = "v_vote"
    /\ \E r \in Responses :
        /\ response' = [response EXCEPT ![p] = r]
        /\ CASE r = "ok" ->
                  /\ cur[p] \notin chain_votes
                  /\ chain_votes' = chain_votes \cup {cur[p]}
             [] r \in already_voted_messages ->
                  /\ cur[p] \in chain_votes
                  /\ chain_votes' = chain_votes
             [] OTHER ->
                  chain_votes' \in {chain_votes, chain_votes \cup {cur[p]}}
    /\ pc' = [pc EXCEPT ![p] = "v_resp"]
    /\ UNCHANGED <<storeVars, voting_lock, phase, history, pureVars, DBConfig, deferred, now, current_voting_power,
                   last_update, callVars, comments, cur, voted_comments,
                   old_identifiers, log, idx, acted, skipped>>

\* _vote after the answer, and voted_comments.append(comment).
VoteResp(p) ==
    /\ pc[p] = "v_resp"
    /\ IF response[p] = "ok" \/ IsAlreadyVoted(response[p])
       THEN /\ log' = [log EXCEPT ![p] = @ \cup
                        { << IF response[p] = "ok" THEN "Voted on"
                             ELSE "Skipping already-voted post", cur[p] >> }]
            /\ voted_comments' = [voted_comments EXCEPT ![p] = Append(@, cur[p])]
            /\ acted' = IF history THEN acted \cup {cur[p]} ELSE acted
            /\ cur' = [cur EXCEPT ![p] = None]
            /\ pc' = [pc EXCEPT ![p] = "v_loop"]
            /\ ret' = ret
       ELSE /\ ret' = [ret EXCEPT ![p] = "RPCError"]
            /\ pc' = [pc EXCEPT ![p] = "v_raised"]
            /\ UNCHANGED <<log, voted_comments, acted, cur>>
    /\ response' = [response EXCEPT ![p] = None]
    /\ UNCHANGED <<storeVars, voting_lock, phase, history, pureVars, DBConfig, deferred, envVars, arg, comments,
                   old_identifiers, idx, skipped>>

\* update_voted_comments: with self.lock:
UpdLock(p) ==
    /\ pc[p] = "u_lock"
    /\ Acquirable(lock, p)
    /\ lock' = Acquire(lock, p)
    /\ idx' = [idx EXCEPT ![p] = 1]
    /\ pc' = [pc EXCEPT ![p] = "u_loop"]
    /\ UNCHANGED <<DBComment, tracked_comments, voting_lock, phase, history, pureVars, DBConfig, deferred, envVars,
                   callVars, cycleVars, acted, skipped>>

\* update_voted_comments, the loop body: get() raises DoesNotExist when no
\* row has the identifier; otherwise the row is saved as voted.
UpdLoop(p) ==
    /\ pc[p] = "u_loop"
    /\ idx[p] <= Len(voted_comments[p])
    /\ LET identifier == voted_comments[p][idx[p]] IN
       IF ~Exists(DBComment, identifier)
       THEN /\ ret' = [ret EXCEPT ![p] = "DoesNotExist"]
            /\ lock' = Release(lock)
            /\ pc' = [pc EXCEPT ![p] = "v_raised"]
            /\ idx' = [idx EXCEPT ![p] = 0]
            /\ DBComment' = DBComment
       ELSE /\ DBComment' = SaveVoted(DBComment, identifier)
            /\ idx' = [idx EXCEPT ![p] = @ + 1]
            /\ UNCHANGED <<ret, lock, pc>>
    /\ UNCHANGED <<tracked_comments, voting_lock, phase, history, pureVars, DBConfig, deferred, envVars, arg,
                   cycleVars, acted, skipped>>

\* update_voted_comments: self.remove_tracked_comments([...]), which takes
\* the lock a second time.
UpdRmLock(p) ==
    /\ pc[p] = "u_loop"
    /\ idx[p] > Len(voted_comments[p])
    /\ Acquirable(lock, p)
    /\ lock' = Acquire(lock, p)
    /\ idx' = [idx EXCEPT ![p] = 1]
    /\ pc' = [pc EXCEPT ![p] = "ur_loop"]
    /\ UNCHANGED <<DBComment, tracked_comments, voting_lock, phase, history, pureVars, DBConfig, deferred, envVars,
                   callVars, cycleVars, acted, skipped>>

\* remove_tracked_comments of the voted identifiers, the loop body.
UpdRmLoop(p) ==
    /\ pc[p] = "ur_loop"
    /\ idx[p] <= Len(voted_comments[p])
    /\ DBComment' = RemoveRow(DBComment, voted_comments[p][idx[p]])
    /\ tracked_comments' = RemoveEntry(tracked_comments, voted_comments[p][idx[p]])
    /\ skipped' = Skipped(skipped, DBComment, voted_comments[p][idx[p]])
    /\ idx' = [idx EXCEPT ![p] = @ + 1]
    /\ UNCHANGED <<lock, voting_lock, phase, history, pureVars, DBConfig, deferred, envVars, callVars, cycleVars,
                   pc, acted>>

\* Both with blocks are left: update_voted_comments returns.
UpdUnlock(p) ==
    /\ pc[p] = "ur_loop"
    /\ idx[p] > Len(voted_comments[p])
    /\ lock' = Release(Release(lock))
    /\ idx' = [idx EXCEPT ![p] = 0]
    /\ pc' = [pc EXCEPT ![p] = "r_lock"]
    /\ UNCHANGED <<DBComment, tracked_comments, voting_lock, phase, history, pureVars, DBConfig, deferred, envVars,
                   callVars, cycleVars, acted, skipped>>

\* self.db.remove_tracked_comments(old_identifiers): with self.lock:
OldLock(p) ==
    /\ pc[p] = "r_lock"
    /\ Acquirable(lock, p)
    /\ lock' = Acquire(lock, p)
    /\ idx' = [idx EXCEPT ![p] = 1]
    /\ pc' = [pc EXCEPT ![p] = "r_loop"]
    /\ UNCHANGED <<DBComment, tracked_comments, voting_lock, phase, history, pureVars, DBConfig, deferred, envVars,
                   callVars, cycleVars, acted, skipped>>

\* remove_tracked_comments of the old identifiers, the loop body.
OldLoop(p) ==
    /\ pc[p] = "r_loop"
    /\ idx[p] <= Len(old_identifiers[p])
    /\ DBComment' = RemoveRow(DBComment, old_identifiers[p][idx[p]])
    /\ tracked_comments' = RemoveEntry(tracked_comments, old_identifiers[p][idx[p]])
    /\ skipped' = Skipped(skipped, DBComment, old_identifiers[p][idx[p]])
    /\ idx' = [idx EXCEPT ![p] = @ + 1]
    /\ UNCHANGED <<lock, voting_lock, phase, history, pureVars, DBConfig, deferred, envVars, callVars, cycleVars,
                   pc, acted>>

\* remove_tracked_comments returns: the cycle's work is done.
OldUnlock(p) ==
    /\ pc[p] = "r_loop"
    /\ idx[p] > Len(old_identifiers[p])
    /\ lock' = Release(lock)
    /\ idx' = [idx EXCEPT ![p] = 0]
    /\ pc' = [pc EXCEPT ![p] = "v_done"]
    /\ UNCHANGED <<DBComment, tracked_comments, voting_lock, phase, history, pureVars, DBConfig, deferred, envVars,
                   callVars, cycleVars, acted, skipped>>

\* The cycle's locals are dropped when the call ends.
EndCycle(p) ==
    /\ voting_lock' = None
    /\ pc' = [pc EXCEPT ![p] = "idle"]
    /\ ret' = [ret EXCEPT ![p] = None]
    /\ comments' = [comments EXCEPT ![p] = {}]
    /\ cur' = [cur EXCEPT ![p] = None]
    /\ voted_comments' = [voted_comments EXCEPT ![p] = <<>>]
    /\ old_identifiers' = [old_identifiers EXCEPT ![p] = <<>>]
    /\ log' = [log EXCEPT ![p] = {}]
    /\ UNCHANGED <<storeVars, phase, history, pureVars, DBConfig, deferred, envVars, arg, response, idx, acted, skipped>>

\* vote_for_comments returns: the voting lock is released.
VoteReturn(p) ==
    /\ pc[p] = "v_done"
    /\ EndCycle(p)

\* An exception leaves vote_for_comments: the voting lock is released.
VoteRaise(p) ==
    /\ pc[p] = "v_raised"
    /\ EndCycle(p)

\* ------------------------------------------------------ specifications
add_comment(p) ==
    \/ AddCall(p) \/ AddLock(p) \/ AddCheck(p) \/ AddCreate(p) \/ AddMem(p)
    \/ AddUnlock(p)

remove_tracked_comments(p) == RmLock(p) \/ RmLoop(p)

update_voted_comments(p) ==
    \/ UpdLock(p) \/ UpdLoop(p) \/ UpdRmLock(p) \/ UpdRmLoop(p) \/ UpdUnlock(p)

vote_for_comments(p) ==
    \/ VoteCall(p) \/ VoteLock(p) \/ VoteSnap(p) \/ VoteLoop(p)
    \/ VoteLoopEnd(p) \/ VoteSend(p) \/ VoteResp(p)
    \/ update_voted_comments(p)
    \/ OldLock(p) \/ OldLoop(p) \/ OldUnlock(p)
    \/ VoteReturn(p) \/ VoteRaise(p)

\* One ingestion thread, one dispatch thread and the menu, with restarts.
Next ==
    \/ Start \/ Crash \/ Tick \/ Update
    \/ add_comment("monitor1")
    \/ vote_for_comments("timer1")
    \/ remove_tracked_comments(Gui)

Spec == Init /\ [][Next]_vars

\* One thread of each kind in one run of the process, with the history
\* variables recorded.
NextHistory ==
    \/ Start \/ Tick
    \/ add_comment("monitor1")
    \/ vote_for_comments("timer1")
    \/ remove_tracked_comments(Gui)

SpecHistory == InitHistory /\ [][NextHistory]_vars

\* Two ingestion threads next to the dispatch thread and the menu, in one
\* run of the process.
NextIngest ==
    \/ Start \/ Tick
    \/ \E p \in Monitors : add_comment(p)
    \/ vote_for_comments("timer1")
    \/ remove_tracked_comments(Gui)

SpecIngest == Init /\ [][NextIngest]_vars

\* Two dispatch threads next to the ingestion thread and the menu, in one
\* run of the process.
NextDispatch ==
    \/ Start \/ Tick
    \/ add_comment("monitor1")
    \/ \E p \in Timers : vote_for_comments(p)
    \/ remove_tracked_comments(Gui)

SpecDispatch == Init /\ [][NextDispatch]_vars
\* One thread of each kind in one run of the process that is stopped from
\* the keyboard: the dispatch cycle runs in timer_actions on the main thread.
NextShutdown ==
    \/ Start \/ Tick \/ Quit \/ Close
    \/ add_comment("monitor1")
    \/ vote_for_comments("timer1")
    \/ remove_tracked_comments(Gui)

SpecShutdown == Init /\ [][NextShutdown]_vars

\* The engine is built from any configuration and, when it could be built,
\* started.
\* ------------------------------------------------ Config: legacy keys
\* An option is a sequence: empty when options.get(key) is None, the value
\* alone otherwise.
NoValue == <<>>

OptionKeys ==
    {"vote_delay", "min_post_age", "min_voting_power", "priority_high",
     "max_voting_power", "priority_low", "backup_authors", "authors"}

\* default_values, for the keys above.
defaults ==
    [k \in OptionKeys |-> CASE k = "min_post_age" -> <<60>>
                             [] k = "priority_high" -> <<8000>>
                             [] k = "priority_low" -> <<9500>>
                             [] OTHER -> NoValue]

\* Config.get(key): the option, or the default when there is none.
get(options, key) ==
    IF options[key] = NoValue THEN defaults[key] ELSE options[key]

\* Config.get(key, -1) == -1: no option of that name.
is_unset(options, key) == options[key] = NoValue

\* Author.from_config for a name: Author(name=value).
from_config(value) ==
    [name |-> value, vote_replies |-> FALSE, weight |-> 100, priority |-> "normal"]

\* Config.load_authors: self.authors from the option, dicts as they are.
load_authors(options) ==
    IF options["authors"] = NoValue THEN <<>> ELSE options["authors"][1]

\* Config.get_author over self.authors: whether a rule has that name.
has_author(as, name) == \E i \in 1..Len(as) : as[i].name = name

\* The loop of update_old_keys over backup_authors, from entry i on: a
\* backup author not in self.authors is appended with Priority.low.
RECURSIVE add_backup_authors(_, _, _)
add_backup_authors(as, backup, i) ==
    IF i > Len(backup) THEN as
    ELSE add_backup_authors(
           IF has_author(as, backup[i]) THEN as
           ELSE Append(as, [from_config(backup[i]) EXCEPT !.priority = "low"]),
           backup, i + 1)

\* One renaming of update_old_keys that keeps the old key.
update_key_keep(options, old, new) ==
    IF get(options, old) # NoValue /\ is_unset(options, new)
    THEN [options EXCEPT ![new] = get(options, old)]
    ELSE options

\* One renaming of update_old_keys: when old has a value and new has none,
\* new is set to it and old is deleted.
update_key(options, old, new) ==
    IF get(options, old) # NoValue /\ is_unset(options, new)
    THEN [options EXCEPT ![new] = get(options, old), ![old] = NoValue]
    ELSE options

\* Config.update_old_keys on the options and self.authors.
update_old_keys(cfg) ==
    LET o1 == update_key(cfg.options, "vote_delay", "min_post_age")
        backup == IF o1["backup_authors"] = NoValue THEN <<>>
                  ELSE o1["backup_authors"][1]
        as == IF backup # <<>> THEN add_backup_authors(cfg.authors, backup, 1)
              ELSE cfg.authors
        o2 == IF backup # <<>> THEN [o1 EXCEPT !["backup_authors"] = NoValue] ELSE o1
        o3 == update_key(o2, "min_voting_power", "priority_high")
        o4 == update_key(o3, "max_voting_power", "priority_low")
    IN [cfg EXCEPT !.options = o4, !.authors = as]

\* The option dictionaries a configuration file may hold.
AuthorOptions ==
    { NoValue, << <<>> >>,
      << << [name |-> "alice", vote_replies |-> TRUE, weight |-> 100,
             priority |-> "high"] >> >> }
BackupOptions == { NoValue, << <<>> >>, << <<"bob">> >>, << <<"alice", "bob">> >> }
LoadedOptions ==
    { [k \in OptionKeys |->
         CASE k = "vote_delay" -> IF 1 \in S THEN <<120>> ELSE NoValue
           [] k = "min_post_age" -> IF 2 \in S THEN <<60>> ELSE NoValue
           [] k = "min_voting_power" -> IF 3 \in S THEN <<1000>> ELSE NoValue
           [] k = "priority_high" -> IF 4 \in S THEN <<8000>> ELSE NoValue
           [] k = "max_voting_power" -> IF 5 \in S THEN <<5000>> ELSE NoValue
           [] k = "priority_low" -> IF 6 \in S THEN <<9500>> ELSE NoValue
           [] k = "backup_authors" -> ba
           [] k = "authors" -> au] :
        S \in SUBSET (1..6), ba \in BackupOptions, au \in AuthorOptions }

\* Config.load has read a file into self.options: options_loaded is next.
InitMigrate ==
    /\ DBComment = [id \in Ids |-> NoRec]
    /\ tracked_comments = [id \in Ids |-> NoTC]
    /\ lock = FreeLock
    /\ voting_lock = None
    /\ phase = "loaded"
    /\ history = FALSE
    /\ now = StartTime
    /\ current_voting_power = 0
    /\ last_update = 0
    /\ chain_votes = {}
    /\ acted = {}
    /\ skipped = {}
    /\ \E o \in LoadedOptions : config = [loaded |-> o, options |-> o, authors |-> <<>>]
    /\ account = NoAccount
    /\ item = NoItem
    /\ result = NoResult
    /\ DBConfig = NoVersion
    /\ deferred = {}
    /\ IdleLocals

\* Config.options_loaded: load_authors, then update_old_keys.
options_loaded ==
    /\ phase = "loaded"
    /\ config' = update_old_keys([config EXCEPT !.authors = load_authors(config.options)])
    /\ phase' = "options_loaded"
    /\ UNCHANGED <<storeVars, voting_lock, history, envVars, pc, callVars, cycleVars,
                   idx, acted, skipped, account, item, result, DBConfig, deferred>>

NextMigrate == options_loaded

SpecMigrate == InitMigrate /\ [][NextMigrate]_vars

NextConfig == CuratorInit \/ VoterInit \/ Start \/ Tick

SpecConfig == InitConfig /\ [][NextConfig]_vars

\* The voter's statistics on their own, refreshed as time passes.
NextPower == Connect \/ Refresh \/ Elapse \/ Prioritize

SpecPower == Init /\ [][NextPower]_vars


\* should_track decides on one comment, under changing voting power and
\* thresholds.
NextTrack == Track \/ UpdatePower \/ SettingsChanged

SpecTrack == InitTrack /\ [][NextTrack]_vars


\* The settings are reloaded again and again while the engine runs.
\* A running engine with the configured policy in force.
InitReload ==
    /\ DBComment = [id \in Ids |-> NoRec]
    /\ tracked_comments = [id \in Ids |-> NoTC]
    /\ lock = FreeLock
    /\ voting_lock = None
    /\ phase = "running"
    /\ history = FALSE
    /\ now = StartTime
    /\ current_voting_power \in PowerChoices
    /\ last_update = StartTime - update_interval
    /\ chain_votes = {}
    /\ acted = {}
    /\ skipped = {}
    /\ config = Options
    /\ account = NoAccount
    /\ item = NoItem
    /\ result = NoResult
    /\ DBConfig = db_version
    /\ deferred = {}
    /\ IdleLocals

NextReload == Reload \/ UpdatePower

SpecReload == InitReload /\ [][NextReload]_vars

\* The decisions of the engine on one comment under one voting power.
NextDecide ==
    Track \/ TrackForAuthor \/ TrackForDelegate \/ ShouldVote \/ VotingWeight

SpecDecide == InitDecide /\ [][NextDecide]_vars

\* One ingestion thread and one dispatch thread in one run of the process,
\* the statistics updated as time passes, with the history variables
\* recorded.
NextRetry ==
    \/ Start \/ Tick \/ Update
    \/ add_comment("monitor1")
    \/ vote_for_comments("timer1")

SpecRetry == InitHistory /\ [][NextRetry]_vars

\* The ingestion loop over an event stream with malformed items and
\* failures, next to the dispatch thread, in one run of the process.
NextMonitor ==
    \/ Start \/ Tick
    \/ Malformed("monitor1") \/ MonitorBreak("monitor1")
    \/ add_comment("monitor1")
    \/ vote_for_comments("timer1")

SpecMonitor == Init /\ [][NextMonitor]_vars

\* A database file of any version is opened and, when it could be opened,
\* loaded.
NextOpen == VoterInit \/ Start \/ Tick

SpecOpen == InitOpen /\ [][NextOpen]_vars


\* ================================================================ claims
\* The rate window's allotment: the votes one window may hold. There is no
\* such number in the engine; it is the least that two comments can exceed.
Allotment == 1


\* The row says Tracked: tracked and not voted.
IsTracked(rec) == rec.exists /\ rec.tracked /\ ~rec.voted

\* The row says Voted.
IsVoted(rec) == rec.exists /\ rec.voted

\* Thread p is inside add_comment's with block.
InAdd(p) == pc[p] \in {"add_check", "add_create", "add_mem", "add_unlock"}

\* Thread p is inside vote_for_comments' with self.voting_lock block.
InCycle(p) == pc[p] \notin {"idle", "v_lock"}

\* C1: an identifier is admitted at most once, ever: add_comment goes on to
\* create a row only for an identifier that has no row and that has not
\* left the Tracked state before (by being voted or skipped); otherwise it
\* returns False.
C1_AdmittedAtMostOnce ==
    \A p \in Monitors :
        pc[p] = "add_create" =>
            /\ ~Exists(DBComment, arg[p].identifier)
            /\ arg[p].identifier \notin skipped

\* C2: Voted is terminal: no step changes or deletes a row that says Voted,
\* and no step puts its identifier back into tracked_comments.
C2_VotedIsTerminal ==
    [][\A x \in Ids :
          IsVoted(DBComment[x]) =>
              /\ DBComment'[x] = DBComment[x]
              /\ ~tracked_comments[x].present => ~tracked_comments'[x].present]_vars

\* C2, its case: add_comment has returned False for an identifier whose
\* row says Voted, which is not in tracked_comments.
C2_Witness ==
    \E p \in Monitors :
        /\ pc[p] = "add_unlock"
        /\ ret[p] = "False"
        /\ IsVoted(DBComment[arg[p].identifier])
        /\ ~tracked_comments[arg[p].identifier].present

\* C3: within one run of the process, no identifier is submitted to the
\* executor again after a submission for it has returned Success or
\* AlreadyDone.
C3_NoResubmission ==
    \A p \in Timers : pc[p] = "v_vote" => cur[p] \notin acted

\* C4: an item the executor answered AlreadyDone for is marked Voted by
\* the cycle that got the answer: when the cycle is over, by returning or
\* by an executor error leaving it, its row says Voted.
C4_AlreadyDoneIsVoted ==
    \A p \in Timers :
        (pc[p] = "v_done" \/ (pc[p] = "v_raised" /\ ret[p] = "RPCError")) =>
            \A x \in Ids :
                <<"Skipping already-voted post", x>> \in log[p]
                    => IsVoted(DBComment[x])

\* C5: an executor error other than AlreadyDone propagates out of the
\* cycle: the step that handles it raises RPCError, adds the item to no
\* list and writes nothing to the store; the raising cycle then only
\* releases the voting lock, so the item stays as it was, and the next
\* snapshot is all of tracked_comments.
C5_ErrorPropagates ==
    /\ [](\A p \in Timers :
            (pc[p] = "v_raised" /\ ret[p] = "RPCError")
                => cur[p] \notin Range(voted_comments[p]))
    /\ [][\A p \in Timers :
            /\ ( /\ pc[p] = "v_resp"
                 /\ response[p] \notin {"ok"} \cup already_voted_messages
                 /\ pc'[p] # "v_resp"
                 /\ phase' = "running" )
               => /\ pc'[p] = "v_raised"
                  /\ ret'[p] = "RPCError"
                  /\ cur'[p] = cur[p]
                  /\ voted_comments'[p] = voted_comments[p]
                  /\ DBComment' = DBComment
                  /\ tracked_comments' = tracked_comments
            /\ (pc[p] = "v_raised" /\ pc'[p] # "v_raised")
               => /\ pc'[p] = "idle"
                  /\ DBComment' = DBComment
                  /\ phase' = "running" => tracked_comments' = tracked_comments
            /\ (pc[p] = "v_snap" /\ pc'[p] = "v_loop")
               => comments'[p] = Keys(tracked_comments)]_vars

\* C5, its case: the executor's error has left the cycle and the item is
\* still Tracked, in the database and in tracked_comments.
C5_Witness ==
    \E p \in Timers :
        /\ pc[p] = "v_raised"
        /\ ret[p] = "RPCError"
        /\ IsTracked(DBComment[cur[p]])
        /\ tracked_comments[cur[p]].present

\* C6: when a cycle ends, by returning or by propagating an executor
\* error, every item the executor answered Success or AlreadyDone for
\* during the cycle is marked Voted in the store.
C6_CommitBeforeEnd ==
    \A p \in Timers :
        (pc[p] = "v_done" \/ (pc[p] = "v_raised" /\ ret[p] = "RPCError"))
            => \A x \in Range(voted_comments[p]) : IsVoted(DBComment[x])

\* C7: update_voted_comments ignores identifiers that are not Tracked: it
\* never raises for an identifier that has no row.
C7_IgnoresUntracked ==
    \A p \in Timers : pc[p] = "v_raised" => ret[p] # "DoesNotExist"

\* C8: update_voted_comments is an atomic batch: in no state are some
\* identifiers of a batch Voted in the database while others of the same
\* batch are still Tracked there.
C8_AtomicBatch ==
    \A p \in Timers :
        \A x, y \in Range(voted_comments[p]) :
            ~(IsVoted(DBComment[x]) /\ IsTracked(DBComment[y]))

\* C9: add_comment's check and insertion are one critical section: at
\* most one thread is inside it; the identifier still has no row when the
\* row is created, so create never fails on the unique identifier; a call
\* that returns True leaves one row and one tracked_comments entry with its
\* own reason; and a call returns False only for an identifier that has a
\* row.
C9_CheckThenAct ==
    \A p \in Monitors :
        /\ \A q \in Monitors : (p # q /\ InAdd(p)) => ~InAdd(q)
        /\ pc[p] = "add_create" => ~Exists(DBComment, arg[p].identifier)
        /\ pc[p] = "add_unlock" => ret[p] \in {"True", "False"}
        /\ (pc[p] = "add_unlock" /\ ret[p] = "True")
           => /\ DBComment[arg[p].identifier] =
                    Create(DBComment, arg[p])[arg[p].identifier]
              /\ tracked_comments[arg[p].identifier] =
                    TrackedComment(arg[p].reason_type, arg[p].reason_value)
        /\ (pc[p] = "add_unlock" /\ ret[p] = "False")
           => Exists(DBComment, arg[p].identifier)

\* C9, its case: two threads have called add_comment for the same
\* identifier with different reasons; one has created the row and the
\* entry and is about to return True, the other still waits for the lock.
C9_Witness ==
    \E p, q \in Monitors :
        LET x == arg[p].identifier IN
        /\ p # q
        /\ pc[p] = "add_unlock"
        /\ ret[p] = "True"
        /\ pc[q] = "add_lock"
        /\ arg[q].identifier = x
        /\ arg[q].reason_type # arg[p].reason_type
        /\ DBComment[x].reason_type = arg[p].reason_type
        /\ tracked_comments[x].reason_type = arg[p].reason_type

\* C10: dispatch cycles do not overlap: at most one thread is inside the
\* with self.voting_lock block, and it is the lock's holder.
C10_CyclesDoNotOverlap ==
    \A p \in Timers :
        InCycle(p) =>
            /\ voting_lock = p
            /\ \A q \in Timers : q # p => ~InCycle(q)

\* C10, its case: one thread is committing its batch while the other has
\* called vote_for_comments and waits for the voting lock.
C10_Witness ==
    \E p, q \in Timers :
        /\ p # q
        /\ pc[p] = "u_loop"
        /\ Len(voted_comments[p]) > 0
        /\ pc[q] = "v_lock"

\* Thread p is inside _vote: the vote is being sent or its answer handled.
InVote(p) == pc[p] \in {"v_vote", "v_resp"}

\* C11: the store lock is never held while the dispatcher calls the
\* executor: a thread that is inside _vote does not own DB.lock, so the
\* lock is free or owned by a thread that is inside a store operation.
C11_NoStoreLockInVote ==
    \A p \in Timers :
        InVote(p) =>
            /\ lock.owner # p
            /\ lock.owner # None =>
                  \/ InAdd(lock.owner)
                  \/ pc[lock.owner] = "rm_loop"

\* C11, its case: the dispatcher is inside _vote, the executor's answer
\* not handled yet, and the ingestion thread has taken the store lock and
\* created its row.
C11_Witness ==
    \E p \in Timers, m \in Monitors :
        /\ pc[p] = "v_resp"
        /\ lock.owner = m
        /\ pc[m] = "add_mem"
        /\ arg[m].identifier # cur[p]

\* C12: stopping never closes the store while a dispatch cycle is between
\* its snapshot and the end of its batch commit: the step that closes the
\* database is taken only when no thread is inside vote_for_comments, and
\* a cycle that was running when the stop was asked for finds the store
\* open until it ends.
C12_CloseAfterCommit ==
    /\ [](\A p \in Timers : InCycle(p) => phase \in {"running", "stopping"})
    /\ [][(phase # "closed" /\ phase' = "closed")
            => \A p \in Timers : ~InCycle(p) /\ pc[p] # "v_lock"]_vars

\* C12, its case: the stop has been asked for while update_voted_comments
\* has saved the first row of a batch of two and not yet the second.
C12_Witness ==
    \E p \in Timers :
        /\ phase = "stopping"
        /\ pc[p] = "u_loop"
        /\ Len(voted_comments[p]) = 2
        /\ idx[p] = 2
        /\ IsVoted(DBComment[voted_comments[p][1]])
        /\ IsTracked(DBComment[voted_comments[p][2]])

HasSnapshot(p) == pc[p] \in {"v_loop", "v_vote", "v_resp"}

StoreOpened == phase \in {"constructed", "running", "stopping", "down", "closed"}

\* C15: with priority thresholds that are not low >= normal >= high, or
\* with min_post_age greater than max_post_age, the constructor raises
\* ConfigError: the database is never opened and the engine never runs,
\* so no comment is evaluated or voted.
C15_InvalidPolicyRaises ==
    ( \/ ~(config.priority_low >= config.priority_normal)
      \/ ~(config.priority_normal >= config.priority_high)
      \/ config.min_post_age > config.max_post_age )
    => /\ ~StoreOpened
       /\ phase \in {"new", "config_error"}
       /\ phase = "config_error" => result.error # None
       /\ \A p \in Procs : pc[p] = "idle"

\* C15, its case: the ages are in order, the lists are lists, the
\* thresholds are not in order, and the constructor has raised for them.
C15_Witness ==
    /\ phase = "config_error"
    /\ config.blacklist_authors = "list"
    /\ config.min_post_age <= config.max_post_age
    /\ config.priority_low < config.priority_normal
    /\ result.error = "Priority voting powers must be: low >= normal >= high"

\* C16: for a raw voting power in 0..STEEMIT_100_PERCENT and an elapsed
\* time >= 0, the power update() computes is never above
\* STEEMIT_100_PERCENT (1.0), and with the same answer of get_account it
\* does not decrease from one update to a later one.
C16_PowerCappedAndMonotone ==
    /\ [](current_voting_power >= 0 /\ current_voting_power <= STEEMIT_100_PERCENT)
    /\ [][(account # NoAccount /\ account' = account /\ last_update' > last_update)
            => current_voting_power' >= current_voting_power]_vars

\* C16, its case: the same answer has been used by a later update, the
\* elapsed time being one no new answer carries, and the power has grown
\* past the raw level without reaching the cap.
C16_Witness ==
    /\ phase = "running"
    /\ account # NoAccount
    /\ last_update - account.last_vote_time \notin ElapsedChoices
    /\ current_voting_power > account.voting_power
    /\ current_voting_power < STEEMIT_100_PERCENT

\* The level the last answer of get_account has regenerated to at time t,
\* capped, in 1/RegenDen of a ten-thousandth.
Regenerated(t) ==
    LET full == STEEMIT_100_PERCENT * RegenDen
        level == account.voting_power * RegenDen
                 + RegenNum * (t - account.last_vote_time)
    IN IF level < full THEN level ELSE full

\* The distance between the power held and the regenerated level at t.
PowerError(t) ==
    LET d == RegenDen * current_voting_power - Regenerated(t)
    IN IF d < 0 THEN 0 - d ELSE d

\* C17 as stated: whenever is_prioritized compares, the power it compares
\* is exactly min(1.0, rawLevel + (now - observedAt) / RegenPeriod) for the
\* present time now.
C17_PowerIsCurrentAtNow ==
    [][(result'.calls = 1 /\ result # result') => PowerError(now) = 0]_vars

\* C17, amended: whenever is_prioritized compares, the power it compares is
\* min(1.0, rawLevel + (t - observedAt) / RegenPeriod) rounded to four
\* decimal places (within half a ten-thousandth), where t is the time of
\* the last update(), which is not later than now.
C17_PowerIsRoundedAtLastUpdate ==
    [][(result'.calls = 1 /\ result # result')
         => /\ last_update <= now
            /\ 2 * PowerError(last_update) <= RegenDen]_vars

\* C17, its case: a comparison is made after the clock has moved past the
\* last update(), the level has regenerated since, and the power held is
\* not the unrounded level of either time.
C17_Witness ==
    /\ phase = "running"
    /\ result.calls = 1
    /\ now > last_update
    /\ Regenerated(now) > Regenerated(last_update)
    /\ PowerError(last_update) > 0
    /\ PowerError(now) > 0

\* C18: current_voting_power and last_update are written only by update().
\* No step of add_comment (taken after should_track), of a
\* vote_for_comments cycle (should_vote, get_voting_weight, the votes, the
\* batch commit) or of remove_tracked_comments changes them; a step that
\* changes them within one run of the process is update() past its
\* interval check and changes nothing else.
C18_OnlyUpdateWritesBudget ==
    [][/\ (phase' = phase /\ (pc' # pc \/ cycleVars' # cycleVars
                                \/ storeVars' # storeVars
                                \/ chain_votes' # chain_votes))
          => UNCHANGED <<current_voting_power, last_update>>
       /\ (phase' = phase /\ (current_voting_power' # current_voting_power
                                \/ last_update' # last_update))
          => /\ ~(now - last_update < update_interval)
             /\ last_update' = now]_vars

\* C18, its case: a cycle has cast a vote and is committing its batch
\* after the clock has moved, and the statistics are still those written
\* by the update() at the start.
C18_Witness ==
    \E p \in Timers :
        /\ pc[p] = "u_loop"
        /\ Len(voted_comments[p]) >= 1
        /\ chain_votes # {}
        /\ now > StartTime
        /\ last_update = StartTime
        /\ current_voting_power > 0

\* C19: should_track rejects exactly when the comment disallows curation
\* rewards or votes, or its author or category is blacklisted, or
\* now - timestamp > max_post_age (an age equal to max_post_age is
\* accepted); the reason given is that of the first of these, in this
\* order; a comment in a blacklisted category is rejected whatever its age
\* and author.
C19_ShouldTrackRule ==
    LET disallows == ~item.allow_curation_rewards \/ ~item.allow_votes
        listed == item.author \in blacklisted_authors
                  \/ item.category \in blacklisted_categories
        old == now - item.timestamp > max_post_age
    IN
    result.calls >= 1 =>
      /\ result.track = ~(disallows \/ listed \/ old)
      /\ disallows => result.reason = <<"comment does not allow curation">>
      /\ (~disallows /\ listed)
           => result.reason = <<"comment author/category is blacklisted">>
      /\ (~disallows /\ ~listed /\ old) => result.reason = <<"comment is too old">>
      /\ result.track => result.reason = <<"">>
      /\ item.category = "spam" => ~result.track

\* C19, its case: a comment of exactly max_post_age, free to be curated,
\* by an author and in a category that are not blacklisted, has been
\* accepted.
C19_Witness ==
    /\ result.calls >= 1
    /\ result.track
    /\ now - item.timestamp = max_post_age
    /\ item.author = "bob"
    /\ item.category = "news"

C21_TrackForAuthorAndDelegate ==
    LET st == should_track(item, now)
        rule == \E a \in authors :
                   /\ a.name = item.author
                   /\ (item.parent_author = "" \/ a.vote_replies)
        voted == \E d \in delegates : d.name \in item.active_votes
    IN
    /\ result.fn \in {"should_track_for_author", "should_track_for_delegate"}
         => /\ result.track => st.track
            /\ ~st.track => (~result.track /\ result.reason = st.reason)
    /\ (result.fn = "should_track_for_author" /\ st.track)
         => result.track = rule
    /\ (result.fn = "should_track_for_delegate" /\ st.track)
         => result.track = voted

\* C21, its case: a reply by an author whose rule has vote_replies set has
\* been accepted by the author check.
C21_Witness ==
    /\ result.fn = "should_track_for_author"
    /\ result.track
    /\ item.parent_author # ""
    /\ item.author = "carol"

\* C22: a tracked item that should_track now rejects gets should_vote =
\* (vote False, track False, should_track's reason); the cycle that
\* evaluates it does not submit it and has removed it from the tracked set
\* when the cycle ends, by returning or by an executor error leaving it.
C22_RejectedIsDroppedByCycleEnd ==
    \A p \in Timers :
        /\ \A x \in Range(old_identifiers[p]) :
              /\ cur[p] # x
              /\ x \notin Range(voted_comments[p])
        /\ (pc[p] = "v_done" \/ (pc[p] = "v_raised" /\ ret[p] = "RPCError"))
              => \A x \in Range(old_identifiers[p]) :
                    /\ ~tracked_comments[x].present
                    /\ ~IsTracked(DBComment[x])

\* C23: if should_track accepts and now - timestamp < min_post_age,
\* should_vote returns (vote False, track True, 'comment is too young')
\* whatever the voting power, the author rules and the delegate votes are;
\* an item whose age is exactly min_post_age is not too young.
C23_TooYoungIsKept ==
    (result.fn = "should_vote" /\ should_track(item, now).track) =>
        /\ now - item.timestamp < min_post_age
             => /\ ~result.vote
                /\ result.track
                /\ result.reason = <<"comment is too young">>
        /\ now - item.timestamp = min_post_age
             => result.reason # <<"comment is too young">>

\* C23, its case: a comment one second short of min_post_age, by an author
\* with a rule and voted for by both delegates, has been decided under a
\* voting power that meets every threshold.
C23_Witness ==
    /\ result.fn = "should_vote"
    /\ result.reason = <<"comment is too young">>
    /\ now - item.timestamp = min_post_age - 1
    /\ item.author = "alice"
    /\ {"dan", "eve"} \subseteq item.active_votes
    /\ result.power = priority_voting_powers["low"]

C25_DelegatePath ==
    LET some == \E d \in delegates :
                   /\ d.name \in item.active_votes
                   /\ result.power >= priority_voting_powers[d.priority]
    IN
    (/\ result.fn = "should_vote"
     /\ should_track(item, now).track
     /\ ~(now - item.timestamp < min_post_age))
        => /\ result.by_delegates = some
           /\ result.by_delegates => (result.vote /\ result.track)

\* C25, its case: two delegates have voted, the voting power meets the
\* threshold of one of them only, the author has a rule whose threshold is
\* not met, and the vote is approved.
C25_Witness ==
    /\ result.fn = "should_vote"
    /\ result.vote
    /\ ~result.by_author
    /\ item.author = "carol"
    /\ item.active_votes = {"dan", "eve"}
    /\ result.power = 8500

\* C28: the weight submitted for an approved item is the author rule's
\* weight when a rule exists for the author; when none exists it is the
\* maximum weight among the qualifying delegates: the configured delegates
\* that voted on the item and whose priority's threshold the voting power
\* meets.
C28_WeightOfQualifyingDelegates ==
    LET qualifying == { d \in delegates :
                          /\ d.name \in item.active_votes
                          /\ result.power >= priority_voting_powers[d.priority] }
    IN
    result.fn = "get_voting_weight" =>
        /\ result.error = None
        /\ IF \E a \in authors : a.name = item.author
           THEN \E a \in authors : a.name = item.author /\ result.weight = a.weight
           ELSE /\ qualifying # {}
                /\ result.weight = Max({ d.weight : d \in qualifying })

\* C26: an item rejected because neither path is satisfied gets
\* (vote False, track True): the cycle leaves it in the tracked set, in the
\* database and in memory, and does not queue it for removal; when a later
\* cycle evaluates it after update() has observed a voting power that meets
\* the threshold, that cycle approves it and submits the vote.
C26_DeferredIsRetried ==
    [][\A p \in Timers : \A x \in Ids :
        LET sv == should_vote(Comment(x), now, current_voting_power)
            visit == /\ pc[p] = "v_loop"
                     /\ x \in comments[p]
                     /\ comments'[p] = comments[p] \ {x}
        IN
        /\ (visit /\ ~sv.vote /\ sv.track)
             => /\ x \in deferred'
                /\ UNCHANGED <<DBComment, tracked_comments, old_identifiers,
                               voted_comments, chain_votes, pc>>
        /\ (visit /\ x \in deferred /\ sv.vote)
             => /\ pc'[p] = "v_vote"
                /\ cur'[p] = x]_vars

\* C26, its case: a cycle is about to submit the vote for an item that an
\* earlier cycle rejected and kept, after a later update(); the item was
\* never voted before and its row was never deleted, so it was not
\* inserted again.
C26_Witness ==
    \E p \in Timers :
        /\ pc[p] = "v_vote"
        /\ cur[p] \in deferred
        /\ cur[p] \notin acted \cup skipped
        /\ last_update > StartTime
        /\ IsTracked(DBComment[cur[p]])

\* C27: should_vote rejects with (vote False, track True) when the rate
\* window's allotment for the current period is used up, even if the
\* author or the delegate path is satisfied, so that the votes cast within
\* one window never exceed the allotment. One cycle lies within one window.
C27_VotesWithinAllotment ==
    \A p \in Timers :
        Cardinality({ x \in Ids : <<"Voted on", x>> \in log[p] }) <= Allotment

\* The digit a character stands for.
Digit(c) == Ord(c) - Ord("0")

\* The numbers a version string is made of, read from position i on.
RECURSIVE PartsFrom(_, _, _, _)
PartsFrom(v, i, n, acc) ==
    IF i > Len(v) THEN Append(acc, n)
    ELSE IF v[i] = "." THEN PartsFrom(v, i + 1, 0, Append(acc, n))
    ELSE PartsFrom(v, i + 1, 10 * n + Digit(v[i]), acc)

\* major, minor and patch of a version string.
Parts(v) == PartsFrom(v, 1, 0, <<>>)

\* Version a is older than version b, number by number.
Older(a, b) ==
    LET x == Parts(a)
        y == Parts(b)
    IN \/ x[1] < y[1]
       \/ x[1] = y[1] /\ x[2] < y[2]
       \/ x[1] = y[1] /\ x[2] = y[2] /\ x[3] < y[3]

\* C29: opening a store whose stamped version is greater than the
\* supported one fails with DBVersionError: the store is never in use, and
\* its records and its version marker are left as they were.
C29_NewerVersionIsFatal ==
    /\ []((DBConfig # NoVersion /\ Older(db_version, DBConfig))
            => /\ phase \in {"settings_loaded", "db_error"}
               /\ phase = "db_error" => result.error = "DBVersionError"
               /\ tracked_comments = [id \in Ids |-> NoTC])
    /\ [][(DBConfig # NoVersion /\ Older(db_version, DBConfig))
            => UNCHANGED <<DBComment, DBConfig>>]_vars

\* C29, its case: a file stamped 0.10.0 that holds a tracked comment has
\* been refused.
C29_Witness ==
    /\ phase = "db_error"
    /\ DBConfig = <<"0", ".", "1", "0", ".", "0">>
    /\ \E x \in Ids : IsTracked(DBComment[x])

\* C30: opening a store whose stamped version is older than the supported
\* one is not fatal: it is migrated in place to the current version and
\* opens with its records preserved.
C30_OlderVersionIsMigrated ==
    /\ []((DBConfig # NoVersion /\ Older(DBConfig, db_version))
            => phase # "db_error")
    /\ [][(phase = "settings_loaded" /\ phase' # phase
            /\ DBConfig # NoVersion /\ Older(DBConfig, db_version))
            => /\ phase' = "constructed"
               /\ DBConfig' = db_version
               /\ DBComment' = DBComment]_vars

\* C31: when the event source yields a malformed item (Comment() raises
\* ValueError), the ingestion loop skips it: no record is inserted for it,
\* the loop is still running afterwards and goes on to the next item; the
\* loop ends only on another exception.
C31_MalformedIsSkipped ==
    /\ [](\A p \in Monitors : pc[p] = "m_stopped" => ret[p] = "Exception")
    /\ [][\A p \in Monitors :
            (ret'[p] = "ValueError" /\ ret[p] # "ValueError")
               => /\ pc'[p] = "idle"
                  /\ UNCHANGED <<DBComment, tracked_comments, lock>>]_vars

\* C31, its case: after a malformed item the loop has pulled the next item
\* and is inserting it.
C31_Witness ==
    \E p \in Monitors :
        /\ ret[p] = "ValueError"
        /\ pc[p] = "add_mem"
        /\ IsTracked(DBComment[arg[p].identifier])

Readable(key) == get(config.options, key)

\* The backup authors of the file as loaded.
LoadedBackup ==
    IF config.loaded["backup_authors"] = NoValue THEN <<>>
    ELSE config.loaded["backup_authors"][1]

\* Every backup author of the file is an author after the load, with
\* priority low unless the file's authors already had a rule of that name.
BackupAuthorsAreLow ==
    \A i \in 1..Len(LoadedBackup) :
        \E j \in 1..Len(config.authors) :
            /\ config.authors[j].name = LoadedBackup[i]
            /\ \/ has_author(load_authors(config.loaded), LoadedBackup[i])
               \/ config.authors[j].priority = "low"

LegacyPairs ==
    { <<"vote_delay", "min_post_age">>, <<"min_voting_power", "priority_high">>,
      <<"max_voting_power", "priority_low">> }

\* C33 as stated: after options_loaded every legacy value is readable under
\* its new name, every backup author is an author, and none of the four
\* legacy keys is readable.
C33_AsStated ==
    phase = "options_loaded"
        => /\ \A pr \in LegacyPairs :
                 config.loaded[pr[1]] # NoValue
                    => Readable(pr[2]) = config.loaded[pr[1]]
           /\ BackupAuthorsAreLow
           /\ \A k \in {"vote_delay", "min_voting_power", "max_voting_power",
                         "backup_authors"} : Readable(k) = NoValue

\* C33: after options_loaded, each of vote_delay, min_voting_power and
\* max_voting_power whose new key (min_post_age, priority_high,
\* priority_low) the file does not set is readable under the new key and
\* no longer under the legacy key; a legacy key whose new key the file
\* sets is left as it is, and so is the new key; every entry of a
\* non-empty backup_authors not already in authors is an author with
\* priority low, and a non-empty backup_authors is no longer readable.
C33_LegacyKeysMigrated ==
    phase = "options_loaded"
        => /\ \A pr \in LegacyPairs :
                 IF config.loaded[pr[1]] # NoValue /\ config.loaded[pr[2]] = NoValue
                 THEN /\ Readable(pr[2]) = config.loaded[pr[1]]
                      /\ Readable(pr[1]) = NoValue
                 ELSE /\ config.options[pr[1]] = config.loaded[pr[1]]
                      /\ config.options[pr[2]] = config.loaded[pr[2]]
           /\ BackupAuthorsAreLow
           /\ LoadedBackup # <<>> => Readable("backup_authors") = NoValue

\* C33, its case: a file with vote_delay alone, max_voting_power next to
\* priority_low, and backup authors alice and bob of whom alice has a rule
\* already, has been loaded.
C33_Witness ==
    /\ phase = "options_loaded"
    /\ config.loaded["vote_delay"] = <<120>>
    /\ config.loaded["min_post_age"] = NoValue
    /\ config.loaded["max_voting_power"] = <<5000>>
    /\ config.loaded["priority_low"] = <<9500>>
    /\ LoadedBackup = <<"alice", "bob">>
    /\ Len(load_authors(config.loaded)) = 1
    /\ Len(config.authors) = 2
    /\ config.authors[2] = [name |-> "bob", vote_replies |-> FALSE, weight |-> 100,
                            priority |-> "low"]
    /\ Readable("min_post_age") = <<120>>
    /\ Readable("max_voting_power") = <<5000>>

\* C34: whenever no store operation is in progress, the identifiers of the
\* in-memory working set are exactly those whose row says Tracked, after
\* any sequence of add_comment, update_voted_comments and
\* remove_tracked_comments, calls that raise partway included.
C34_WorkingSetMatchesStore ==
    (phase = "running" /\ lock = FreeLock)
        => { id \in Ids : tracked_comments[id].present }
             = { id \in Ids : IsTracked(DBComment[id]) }

\* C35: an identifier removed by remove_tracked_comments while a cycle is
\* running is not submitted to the chain afterwards, by that cycle or a
\* later one (a comment that is submitted still has its row), and the
\* removal does not make the cycle's update_voted_comments fail.
C35_RemovedIsNotSubmitted ==
    /\ [][\A p \in Timers :
            (pc[p] = "v_vote" /\ pc'[p] = "v_resp") => DBComment[cur[p]].exists]_vars
    /\ [](\A p \in Timers : \A x \in Range(voted_comments[p]) :
            (pc[p] = "v_raised" /\ ~DBComment[x].exists) => ret[p] # "DoesNotExist")

\* C36: after any sequence of load_settings calls, returning or raising
\* ConfigError, the thresholds and ages the engine holds satisfy
\* low >= normal >= high and min_post_age <= max_post_age.
C36_PolicyStaysValid ==
    phase = "running"
        => /\ config.priority_low >= config.priority_normal
           /\ config.priority_normal >= config.priority_high
           /\ config.min_post_age <= config.max_post_age

\* C37: a reply whose author's rule has vote_replies unset is never
\* approved by should_vote through the author path; it is voted for only
\* when the delegate path is satisfied.
C37_RepliesNeedVoteReplies ==
    (/\ result.fn = "should_vote"
     /\ is_reply(item)
     /\ get_author(item.author) # NoAuthor
     /\ ~get_author(item.author).vote_replies)
        => /\ ~result.by_author
           /\ result.vote => result.by_delegates

\* C38: get_voting_weight never raises for a comment should_vote has just
\* approved: every approved comment has an author rule or a configured
\* delegate that has voted on it.
C38_ApprovedHasWeight ==
    result.fn = "get_voting_weight"
        => /\ result.error = None
           /\ \/ get_author(item.author) # NoAuthor
              \/ _get_voted_delegates(item) # {}
           /\ result.weight > 0

\* C38, its case: a comment by an author without a rule, approved because
\* delegate dan has voted on it, has been given dan's weight.
C38_Witness ==
    /\ result.fn = "get_voting_weight"
    /\ item.author = "bob"
    /\ item.active_votes = {"dan"}
    /\ result.vote
    /\ result.weight = 50

\* C39: every tracked comment leaves the tracked set, at the latest through
\* a cycle run after it has become older than max_post_age, even when the
\* chain keeps failing: when a cycle ends, by returning or by raising, no
\* comment that it found too old is tracked any more.
C39_TooOldIsDroppedByCycle ==
    \A p \in Timers :
        pc[p] \in {"v_done", "v_raised"}
            => \A c \in Range(old_identifiers[p]) :
                   is_too_old(Comment(c), now)
                      => /\ ~tracked_comments[c].present
                         /\ ~IsTracked(DBComment[c])

\* Thread p is at an acquisition of the store lock and has to wait.
WaitsForStoreLock(p) ==
    /\ \/ pc[p] \in {"add_lock", "v_snap", "u_lock", "r_lock"}
       \/ pc[p] = "u_loop" /\ idx[p] > Len(voted_comments[p])
    /\ ~Acquirable(lock, p)

\* Thread p is at the acquisition of the voting lock and has to wait.
WaitsForVotingLock(p) == pc[p] = "v_lock" /\ ~VotingLockFree(voting_lock)

\* C40: no interleaving of add_comment, vote_for_comments and
\* remove_tracked_comments deadlocks: the thread that owns the store lock
\* never waits for a lock (update_voted_comments entering
\* remove_tracked_comments with the lock held does not block, and the
\* voting lock is never asked for with the store lock held), and the
\* holder of the voting lock waits at most for the store lock.
C40_NoDeadlock ==
    \A p \in Procs :
        /\ lock.owner = p
              => /\ ~WaitsForStoreLock(p)
                 /\ ~WaitsForVotingLock(p)
                 /\ pc[p] \notin {"idle", "v_lock"}
        /\ voting_lock = p => ~WaitsForVotingLock(p)

\* C40, its case: the dispatcher, holding the voting lock, has entered
\* remove_tracked_comments from update_voted_comments with the store lock
\* held, while the ingestion thread waits for the store lock.
C40_Witness ==
    \E p \in Timers, m \in Monitors :
        /\ pc[p] = "ur_loop"
        /\ voting_lock = p
        /\ lock = [owner |-> p, count |-> 2]
        /\ pc[m] = "add_lock"

====
